---- MODULE Spec2Model ----
(***************************************************************************)
(* Model of the trade-gnome decision core:                                 *)
(*   - supabase/functions/trading-engine/index.ts  (live evaluation)       *)
(*   - supabase/functions/backtest/index.ts        (backtest + metrics)    *)
(*                                                                         *)
(* JavaScript numbers are modelled as exact rationals <<n, d>> (d > 0, in  *)
(* lowest terms); <<0, 0>> is NaN and <<1, 0>>, <<-1, 0>> are +-Infinity.   *)
(* Rounding of IEEE doubles is not modelled.                               *)
(***************************************************************************)
EXTENDS Integers, Sequences, FiniteSets, TLC

(***************************************************************************)
(* JavaScript number arithmetic                                            *)
(***************************************************************************)
Abs(x) == IF x < 0 THEN -x ELSE x

Sign(x) == IF x < 0 THEN -1 ELSE IF x > 0 THEN 1 ELSE 0

Max(a, b) == IF a >= b THEN a ELSE b

RECURSIVE GCD(_, _)
GCD(a, b) == IF b = 0 THEN a ELSE GCD(b, a % b)

\* the number n / d
Rat(n, d) ==
  IF d = 0 THEN <<Sign(n), 0>>
  ELSE LET g == GCD(Abs(n), Abs(d))
       IN  <<Sign(d) * (n \div g), Abs(d) \div g>>

RInt(n) == <<n, 1>>

NaN == <<0, 0>>

IsNaN(a) == a = NaN

\* a + b
RAdd(a, b) ==
  IF a[2] = 0 \/ b[2] = 0
  THEN IF IsNaN(a) \/ IsNaN(b) THEN NaN
       ELSE IF a[2] = 0 /\ b[2] = 0 THEN (IF a = b THEN a ELSE NaN)
       ELSE IF a[2] = 0 THEN a ELSE b
  ELSE LET g == GCD(a[2], b[2])
       IN  Rat(a[1] * (b[2] \div g) + b[1] * (a[2] \div g), (a[2] \div g) * b[2])

RNeg(a) == <<-a[1], a[2]>>

\* a - b
RSub(a, b) == RAdd(a, RNeg(b))

\* a * b
RMul(a, b) ==
  IF a[2] = 0 \/ b[2] = 0
  THEN <<Sign(a[1]) * Sign(b[1]), 0>>
  ELSE LET g1 == GCD(Abs(a[1]), b[2])
           g2 == GCD(Abs(b[1]), a[2])
           h1 == IF g1 = 0 THEN 1 ELSE g1
           h2 == IF g2 = 0 THEN 1 ELSE g2
       IN  Rat((a[1] \div h1) * (b[1] \div h2), (a[2] \div h2) * (b[2] \div h1))

\* a / b
RDiv(a, b) ==
  IF IsNaN(a) \/ IsNaN(b) THEN NaN
  ELSE IF b[2] = 0 THEN (IF a[2] = 0 THEN NaN ELSE RInt(0))
  ELSE IF b[1] = 0 THEN <<Sign(a[1]), 0>>
  ELSE RMul(a, <<Sign(b[1]) * b[2], Abs(b[1])>>)

\* a < b, a <= b, a > b, a >= b (every comparison with NaN is false)
RLt(a, b) == /\ ~IsNaN(a) /\ ~IsNaN(b)
             /\ LET d == RSub(a, b) IN IF IsNaN(d) THEN FALSE ELSE d[1] < 0

RLe(a, b) == /\ ~IsNaN(a) /\ ~IsNaN(b)
             /\ (a = b \/ RLt(a, b))

RGt(a, b) == RLt(b, a)

RGe(a, b) == RLe(b, a)

\* Math.abs
RAbs(a) == <<Abs(a[1]), a[2]>>

\* Math.max
RMax(a, b) == IF IsNaN(a) \/ IsNaN(b) THEN NaN ELSE IF RGe(a, b) THEN a ELSE b

\* SQL NULL / JavaScript null and undefined
Null == <<>>

\* truthiness of a number: 0 and NaN are falsy
Truthy(a) == a[1] # 0

\* the loop of reduce: acc + s[i] + ... + s[Len(s)] (NaN stays NaN)
RECURSIVE RSumFrom(_, _, _)
RSumFrom(s, acc, i) ==
  IF i > Len(s) \/ IsNaN(acc) THEN acc
  ELSE RSumFrom(s, RAdd(acc, s[i]), i + 1)

\* arr.reduce((a, b) => a + b, 0)
RSum(s) == RSumFrom(s, RInt(0), 1)

\* arr.slice(-k) for 0 < k
LastK(s, k) == IF k >= Len(s) THEN s ELSE SubSeq(s, Len(s) - k + 1, Len(s))


(***************************************************************************)
(* Indicator library (trading-engine/index.ts)                             *)
(***************************************************************************)
\* variant of calculateSMA without the length test
calculateSMAUnguarded(prices, period) ==
  RDiv(RSum(LastK(prices, period)), RInt(period))

\* calculateSMA(prices, period)
calculateSMA(prices, period) ==
  IF Len(prices) < period THEN RInt(0)
  ELSE RDiv(RSum(LastK(prices, period)), RInt(period))

\* one iteration of the loop of calculateRSI on the accumulator <<gains, losses>>
RSIStep(acc, change) ==
  IF RGt(change, RInt(0))
  THEN <<RAdd(acc[1], change), acc[2]>>
  ELSE <<acc[1], RAdd(acc[2], RAbs(change))>>

\* the loop of calculateRSI over prices[i .. to] (1-based); acc = <<gains, losses>>
RECURSIVE RSIGainsLosses(_, _, _, _)
RSIGainsLosses(prices, acc, i, to) ==
  IF i > to \/ acc = <<NaN, NaN>> THEN acc
  ELSE RSIGainsLosses(prices, RSIStep(acc, RSub(prices[i], prices[i - 1])), i + 1, to)

\* variant of calculateRSI without the avgLoss === 0 test
calculateRSIUnguarded(prices, period) ==
  IF Len(prices) < period + 1 THEN RInt(50)
  ELSE LET gl      == RSIGainsLosses(prices, <<RInt(0), RInt(0)>>,
                                     Len(prices) - period + 1, Len(prices))
           avgGain == RDiv(gl[1], RInt(period))
           avgLoss == RDiv(gl[2], RInt(period))
           rs      == RDiv(avgGain, avgLoss)
       IN  RSub(RInt(100), RDiv(RInt(100), RAdd(RInt(1), rs)))

\* calculateRSI(prices, period = 14)
calculateRSI(prices, period) ==
  IF Len(prices) < period + 1 THEN RInt(50)
  ELSE LET gl      == RSIGainsLosses(prices, <<RInt(0), RInt(0)>>,
                                     Len(prices) - period + 1, Len(prices))
           avgGain == RDiv(gl[1], RInt(period))
           avgLoss == RDiv(gl[2], RInt(period))
       IN  IF avgLoss = RInt(0) THEN RInt(100)
           ELSE LET rs == RDiv(avgGain, avgLoss)
                IN  RSub(RInt(100), RDiv(RInt(100), RAdd(RInt(1), rs)))

\* the true ranges trs[] built by calculateATR
TrueRanges(highs, lows, closes) ==
  [k \in 1 .. (Len(highs) - 1) |->
     RMax(RMax(RSub(highs[k + 1], lows[k + 1]),
               RAbs(RSub(highs[k + 1], closes[k]))),
          RAbs(RSub(lows[k + 1], closes[k])))]

\* calculateATR(highs, lows, closes, period = 14)
calculateATR(highs, lows, closes, period) ==
  IF Len(highs) < period + 1 THEN RInt(0)
  ELSE RDiv(RSum(LastK(TrueRanges(highs, lows, closes), period)), RInt(period))

\* (price - middle)^2
SqDev(price, middle) == LET d == RSub(price, middle) IN RMul(d, d)

\* slice.reduce((sum, price) => sum + Math.pow(price - middle, 2), 0)
RECURSIVE SumSqDevFrom(_, _, _, _)
SumSqDevFrom(s, middle, acc, i) ==
  IF i > Len(s) \/ IsNaN(acc) THEN acc
  ELSE SumSqDevFrom(s, middle, RAdd(acc, SqDev(s[i], middle)), i + 1)

SumSqDev(s, middle) == SumSqDevFrom(s, middle, RInt(0), 1)

\* calculateBollingerBands(prices, period = 20).  stdDev is a square root, so
\* the bands are kept as middle and variance: upper = middle + 2*sqrt(variance),
\* lower = middle - 2*sqrt(variance); sentinel is the all-zero record.
calculateBollingerBands(prices, period) ==
  IF Len(prices) < period THEN [middle |-> RInt(0), variance |-> RInt(0)]
  ELSE LET slice  == LastK(prices, period)
           middle == RDiv(RSum(slice), RInt(period))
       IN  [middle |-> middle,
            variance |-> RDiv(SumSqDev(slice, middle), RInt(period))]

\* x <= bb.lower, i.e. 2*sqrt(variance) <= middle - x
LeBBLower(x, bb) ==
  LET d == RSub(bb.middle, x)
  IN  RGe(d, RInt(0)) /\ RLe(RMul(RInt(4), bb.variance), RMul(d, d))

\* x >= bb.upper, i.e. x - middle >= 2*sqrt(variance)
GeBBUpper(x, bb) ==
  LET d == RSub(x, bb.middle)
  IN  RGe(d, RInt(0)) /\ RGe(RMul(d, d), RMul(RInt(4), bb.variance))

\* one iteration of the loop of calculateEMA
EMAStep(ema, price, multiplier) == RAdd(RMul(RSub(price, ema), multiplier), ema)

\* the loop of calculateEMA: i runs over prices[i .. to] (1-based), ema is the
\* value so far (NaN stays NaN through every later iteration)
RECURSIVE EMALoop(_, _, _, _, _)
EMALoop(prices, multiplier, ema, i, to) ==
  IF i > to \/ IsNaN(ema) THEN ema
  ELSE EMALoop(prices, multiplier, EMAStep(ema, prices[i], multiplier), i + 1, to)

\* calculateEMA(prices, period). For period 1 the seed prices.slice(-1, 0)[0]
\* is undefined and the loop does not run: the result is undefined
calculateEMA(prices, period) ==
  IF Len(prices) < period THEN RInt(0)
  ELSE IF period = 1 THEN Null
  ELSE EMALoop(prices, Rat(2, period + 1), prices[Len(prices) - period + 1],
               Len(prices) - period + 2, Len(prices))

\* calculateMACD(prices)
calculateMACD(prices) ==
  LET ema12 == calculateEMA(prices, 12)
      ema26 == calculateEMA(prices, 26)
      macd  == RSub(ema12, ema26)
  IN  [macd |-> macd, signal |-> RMul(macd, Rat(9, 10))]

\* the loop of calculateADX: sumDX over bars i .. to (1-based)
RECURSIVE ADXSum(_, _, _, _, _)
ADXSum(highs, lows, sumDX, i, to) ==
  IF i > to \/ sumDX < 0 THEN sumDX
  ELSE ADXSum(highs, lows,
              sumDX + (IF RGt(RSub(highs[i], lows[i]), RInt(0)) THEN 25 ELSE 0),
              i + 1, to)

\* calculateADX(highs, lows, closes, period = 14)
calculateADX(highs, lows, closes, period) ==
  IF Len(highs) < period + 1 THEN RInt(0)
  ELSE Rat(ADXSum(highs, lows, 0, Len(highs) - period + 1, Len(highs)), period)

\* variant of determineRegime whose bullish band starts at 60
determineRegimeFrom60(trend, volatility) ==
  IF RGe(trend, RInt(60)) THEN "bullish"
  ELSE IF RLt(trend, RInt(40)) THEN "bearish"
  ELSE "range"

\* determineRegime(trend, volatility)
determineRegime(trend, volatility) ==
  IF RGt(trend, RInt(60)) THEN "bullish"
  ELSE IF RLt(trend, RInt(40)) THEN "bearish"
  ELSE "range"


(***************************************************************************)
(* Inputs of the live engine                                               *)
(***************************************************************************)
\* number of candles fetchCandles returns (the code asks for at most 100):
\* none, too few for any indicator, enough for all of them
WindowLens == {0, 3, 30}

\* closes: a flat run at a base close followed by a tail of up to two bars;
\* each shape is <<base, tail>>
WindowShapes ==
  {<<100, <<97>>>>, <<100, <<110>>>>, <<100, <<97, 103>>>>,
   <<104, <<>>>>, <<104, <<103>>>>, <<104, <<107, 103>>>>}

\* high = close + spread, low = close - spread
Spreads == {1, 2, 5}

Candle(c, spread) ==
  [close |-> RInt(c), high |-> RInt(c + spread), low |-> RInt(c - spread)]

Window(len, base, tail, spread) ==
  [k \in 1 .. len |->
     IF k <= len - Len(tail) THEN Candle(base, spread)
     ELSE Candle(tail[k - (len - Len(tail))], spread)]

\* windows of 20 candles: enough for the RSI, ATR, ADX, Bollinger bands and the
\* 12-period EMA, too few for the 26-period EMA of the MACD
PartialWindows == {Window(20, shape[1], shape[2], 1) : shape \in WindowShapes}

\* what fetchCandles returns: the mapped klines, or [] when the fetch throws
CandleWindows ==
  PartialWindows
  \cup UNION {{Window(len, shape[1], shape[2], spread) :
                 spread \in Spreads,
                 shape \in {sh \in WindowShapes : Len(sh[2]) <= len}} : len \in WindowLens}

\* getSentiment(): Math.random() * 2 - 1
Sentiments == {Rat(-3, 4), Rat(-1, 2)}

\* rows of bot_config
Configs ==
  {[short_ma_period |-> sp, long_ma_period |-> lp, trade_amount |-> RInt(100),
    stop_loss_percent |-> RInt(2), take_profit_percent |-> RInt(5),
    max_daily_loss |-> RInt(mdl)] :
     sp \in {1}, lp \in {2}, mdl \in {0, 3}}


\* closes / highs / lows = candles.map(...)
Closes(cs) == [k \in 1 .. Len(cs) |-> cs[k].close]

Highs(cs) == [k \in 1 .. Len(cs) |-> cs[k].high]

Lows(cs) == [k \in 1 .. Len(cs) |-> cs[k].low]

\* the indicator block of the handler, for a non-empty candle window
Indicators(cs, cfg) ==
  LET closes       == Closes(cs)
      highs        == Highs(cs)
      lows         == Lows(cs)
      currentPrice == closes[Len(closes)]
      rsi          == calculateRSI(closes, 14)
      atr          == calculateATR(highs, lows, closes, 14)
      m            == calculateMACD(closes)
      volatility   == RMul(RDiv(atr, currentPrice), RInt(100))
  IN  [price          |-> currentPrice,
       shortMA        |-> calculateSMA(closes, cfg.short_ma_period),
       longMA         |-> calculateSMA(closes, cfg.long_ma_period),
       rsi            |-> rsi,
       atr            |-> atr,
       volatility     |-> volatility,
       regime         |-> determineRegime(rsi, volatility),
       macd           |-> m.macd,
       signal         |-> m.signal,
       adx            |-> calculateADX(highs, lows, closes, 14),
       bollingerBands |-> calculateBollingerBands(closes, 20)]

\* pairs of MA periods found in bot_config
PeriodPairs == {<<c.short_ma_period, c.long_ma_period>> : c \in Configs}

\* the indicator block over every candle window and pair of MA periods:
\* <<periods, indicators, candles.length>>
IndicatorSnapshots ==
  {<<pp, Indicators(w, [short_ma_period |-> pp[1], long_ma_period |-> pp[2]]), Len(w)>> :
     w \in CandleWindows \ {<<>>}, pp \in PeriodPairs}

\* a bot_logs row
Log(level, eventType) == [level |-> level, event_type |-> eventType]

\* rows of `trades` with the greatest created_at: what
\* .order('created_at', {ascending: false}).limit(1).maybeSingle() may return
LatestBy(rows, column) ==
  IF rows = <<>> THEN {Null}
  ELSE {rows[i] : i \in {j \in 1 .. Len(rows) :
                           \A k \in 1 .. Len(rows) : rows[k][column] <= rows[j][column]}}

CreatedAt == "created_at"

RecordedAt == "recorded_at"

\* parseFloat(t.pnl?.toString() || '0')
PnlOrZero(row) == IF row.pnl = Null THEN RInt(0) ELSE row.pnl

\* todayTrades: the rows with created_at >= today
TodayTrades(rows, since) == SelectSeq(rows, LAMBDA r : r.created_at >= since)

\* todayTrades.reduce((sum, t) => sum + parseFloat(...), 0) || 0
TodayPnL(rows, since) ==
  LET todayTrades == TodayTrades(rows, since)
      sum == RSum([i \in 1 .. Len(todayTrades) |-> PnlOrZero(todayTrades[i])])
  IN  IF Truthy(sum) THEN sum ELSE RInt(0)

(***************************************************************************)
(* Live engine: the decision logic of the handler                          *)
(***************************************************************************)
Decision(action, reason, logs) == [action |-> action, reason |-> reason, logs |-> logs]

\* priceChange = ((currentPrice - entryPrice) / entryPrice) * 100
PriceChange(currentPrice, entryPrice) ==
  RMul(RDiv(RSub(currentPrice, entryPrice), entryPrice), RInt(100))

\* variant of PositionSizing whose sentiment discount also applies at -0.5
PositionSizingInclusive(cfg, ind, sentiment) ==
  LET a1 == IF RGt(ind.volatility, RInt(3))
            THEN RMul(cfg.trade_amount, Rat(1, 2)) ELSE cfg.trade_amount
      a2 == IF RLe(sentiment, Rat(-1, 2)) THEN RMul(a1, Rat(7, 10)) ELSE a1
  IN  <<a2,
        (IF RGt(ind.volatility, RInt(3)) THEN <<Log("info", "risk_adjustment")>> ELSE <<>>)
        \o (IF RLe(sentiment, Rat(-1, 2)) THEN <<Log("info", "risk_adjustment")>> ELSE <<>>)>>

\* context-aware position sizing: <<adjustedTradeAmount, logs>>
PositionSizing(cfg, ind, sentiment) ==
  LET a1 == IF RGt(ind.volatility, RInt(3))
            THEN RMul(cfg.trade_amount, Rat(1, 2)) ELSE cfg.trade_amount
      a2 == IF RLt(sentiment, Rat(-1, 2)) THEN RMul(a1, Rat(7, 10)) ELSE a1
  IN  <<a2,
        (IF RGt(ind.volatility, RInt(3)) THEN <<Log("info", "risk_adjustment")>> ELSE <<>>)
        \o (IF RLt(sentiment, Rat(-1, 2)) THEN <<Log("info", "risk_adjustment")>> ELSE <<>>)>>

\* "Check stop loss and take profit"
StopLossTakeProfit(cfg, ind, inPosition, lastTrade) ==
  IF inPosition /\ lastTrade # Null
  THEN LET priceChange == PriceChange(ind.price, lastTrade.price)
       IN  IF RLe(priceChange, RNeg(cfg.stop_loss_percent))
           THEN Decision("sell", "Stop loss triggered", <<Log("warn", "stop_loss")>>)
           ELSE IF RGe(priceChange, cfg.take_profit_percent)
           THEN Decision("sell", "Take profit triggered", <<Log("info", "take_profit")>>)
           ELSE Decision("hold", "", <<>>)
  ELSE Decision("hold", "", <<>>)

\* variant of RegimeSignal whose bullish entry does not look at inPosition
RegimeSignalIgnoringPosition(ind, inPosition) ==
  IF /\ ind.regime = "bullish" /\ RGt(ind.adx, RInt(20))
     /\ RGt(ind.shortMA, ind.longMA)
     /\ RLt(ind.rsi, RInt(70)) /\ RGt(ind.rsi, RInt(40))
     /\ RGt(ind.macd, ind.signal)
  THEN Decision("buy", "Strong bullish signal", <<>>)
  ELSE Decision("hold", "", <<>>)

\* variant of RegimeSignal whose bullish entry has no upper bound on the RSI
RegimeSignalNoRsiCap(ind, inPosition) ==
  LET trendStrong == RGt(ind.adx, RInt(20))
  IN  IF ind.regime = "bullish" /\ ~inPosition /\ trendStrong
      THEN IF /\ RGt(ind.shortMA, ind.longMA)
              /\ RGt(ind.rsi, RInt(40))
              /\ RGt(ind.macd, ind.signal)
           THEN Decision("buy", "Strong bullish signal", <<>>)
           ELSE Decision("hold", "", <<>>)
      ELSE IF ind.regime = "bearish" /\ inPosition
      THEN IF \/ RLt(ind.shortMA, ind.longMA)
              \/ RLt(ind.rsi, RInt(40))
              \/ RLt(ind.macd, ind.signal)
           THEN Decision("sell", "Bearish signal", <<>>)
           ELSE Decision("hold", "", <<>>)
      ELSE IF ind.regime = "range" /\ RLt(ind.adx, RInt(20))
      THEN IF ~inPosition /\ LeBBLower(ind.price, ind.bollingerBands) /\ RLt(ind.rsi, RInt(30))
           THEN Decision("buy", "Range mean reversion", <<>>)
           ELSE IF inPosition /\ (GeBBUpper(ind.price, ind.bollingerBands) \/ RGt(ind.rsi, RInt(70)))
           THEN Decision("sell", "Range mean reversion exit", <<>>)
           ELSE Decision("hold", "", <<>>)
      ELSE Decision("hold", "", <<>>)

\* variant of RegimeSignal whose range entry takes any RSI below 60
RegimeSignalRangeBelow60(ind, inPosition) ==
  LET trendStrong == RGt(ind.adx, RInt(20))
  IN  IF ind.regime = "bullish" /\ ~inPosition /\ trendStrong
      THEN IF /\ RGt(ind.shortMA, ind.longMA)
              /\ RLt(ind.rsi, RInt(70)) /\ RGt(ind.rsi, RInt(40))
              /\ RGt(ind.macd, ind.signal)
           THEN Decision("buy", "Strong bullish signal", <<>>)
           ELSE Decision("hold", "", <<>>)
      ELSE IF ind.regime = "bearish" /\ inPosition
      THEN IF \/ RLt(ind.shortMA, ind.longMA)
              \/ RLt(ind.rsi, RInt(40))
              \/ RLt(ind.macd, ind.signal)
           THEN Decision("sell", "Bearish signal", <<>>)
           ELSE Decision("hold", "", <<>>)
      ELSE IF ind.regime = "range" /\ RLt(ind.adx, RInt(20))
      THEN IF ~inPosition /\ LeBBLower(ind.price, ind.bollingerBands) /\ RLt(ind.rsi, RInt(60))
           THEN Decision("buy", "Range mean reversion", <<>>)
           ELSE IF inPosition /\ (GeBBUpper(ind.price, ind.bollingerBands) \/ RGt(ind.rsi, RInt(70)))
           THEN Decision("sell", "Range mean reversion exit", <<>>)
           ELSE Decision("hold", "", <<>>)
      ELSE Decision("hold", "", <<>>)

\* the regime branches of "Strategy signals"
RegimeSignal(ind, inPosition) ==
  LET trendStrong == RGt(ind.adx, RInt(20))
  IN  IF ind.regime = "bullish" /\ ~inPosition /\ trendStrong
      THEN IF /\ RGt(ind.shortMA, ind.longMA)
              /\ RLt(ind.rsi, RInt(70)) /\ RGt(ind.rsi, RInt(40))
              /\ RGt(ind.macd, ind.signal)
           THEN Decision("buy", "Strong bullish signal", <<>>)
           ELSE Decision("hold", "", <<>>)
      ELSE IF ind.regime = "bearish" /\ inPosition
      THEN IF \/ RLt(ind.shortMA, ind.longMA)
              \/ RLt(ind.rsi, RInt(40))
              \/ RLt(ind.macd, ind.signal)
           THEN Decision("sell", "Bearish signal", <<>>)
           ELSE Decision("hold", "", <<>>)
      ELSE IF ind.regime = "range" /\ RLt(ind.adx, RInt(20))
      THEN IF ~inPosition /\ LeBBLower(ind.price, ind.bollingerBands) /\ RLt(ind.rsi, RInt(30))
           THEN Decision("buy", "Range mean reversion", <<>>)
           ELSE IF inPosition /\ (GeBBUpper(ind.price, ind.bollingerBands) \/ RGt(ind.rsi, RInt(70)))
           THEN Decision("sell", "Range mean reversion exit", <<>>)
           ELSE Decision("hold", "", <<>>)
      ELSE Decision("hold", "", <<>>)

\* variant of AdditionalExit that waits for the RSI to fall below 40
AdditionalExitBelow40(ind, inPosition, d) ==
  IF inPosition /\ d.action = "hold"
     /\ RLt(ind.shortMA, ind.longMA) /\ RLt(ind.rsi, RInt(40))
  THEN Decision("sell", "Protective exit: MA crossover down + weakening momentum", <<>>)
  ELSE d

\* "Additional exit condition for position holders"
AdditionalExit(ind, inPosition, d) ==
  IF inPosition /\ d.action = "hold"
     /\ RLt(ind.shortMA, ind.longMA) /\ RLt(ind.rsi, RInt(45))
  THEN Decision("sell", "Protective exit: MA crossover down + weakening momentum", <<>>)
  ELSE d

\* variant of StrategySignals that evaluates the rules whatever the volatility
StrategySignalsUngated(ind, inPosition, d) ==
  IF d.action = "hold"
  THEN AdditionalExit(ind, inPosition, RegimeSignal(ind, inPosition))
  ELSE d

\* "Strategy signals (only if no stop/TP triggered)" with its else-if branch
StrategySignals(ind, inPosition, d) ==
  LET volatilityOk == RLt(ind.volatility, RInt(8))
  IN  IF d.action = "hold" /\ volatilityOk
      THEN AdditionalExit(ind, inPosition, RegimeSignal(ind, inPosition))
      ELSE IF ~volatilityOk
      THEN Decision(d.action, "High volatility detected",
                    d.logs \o <<Log("info", "volatility_hold")>>)
      ELSE d

\* lines 297-379: action, reason and the log rows of the decision
Decide(cfg, ind, lastTrade) ==
  LET inPosition == IF lastTrade = Null THEN FALSE ELSE lastTrade.trade_type = "buy"
  IN  StrategySignals(ind, inPosition, StopLossTakeProfit(cfg, ind, inPosition, lastTrade))


(***************************************************************************)
(* Backtest: runMACrossoverBacktest                                        *)
(***************************************************************************)
\* JavaScript falsiness of a number | null: null, 0 and NaN
Falsy(v) == v = Null \/ ~Truthy(v)

\* movingAverage(data, period, index), index 0-based: null before the first
\* full window, else the mean of data[index - period + 1 .. index]
movingAverage(data, period, index) ==
  IF index < period - 1 THEN Null
  ELSE RDiv(RSum(SubSeq(data, index - period + 2, index + 1)), RInt(period))

\* variant of ExitTriggered without the take-profit test
ExitTriggeredStopLossOnly(priceChange, stopLossPercent, takeProfitPercent) ==
  RLe(priceChange, RNeg(stopLossPercent))

\* priceChange <= -stopLossPercent || priceChange >= takeProfitPercent
ExitTriggered(priceChange, stopLossPercent, takeProfitPercent) ==
  \/ RLe(priceChange, RNeg(stopLossPercent))
  \/ RGe(priceChange, takeProfitPercent)

\* variant of BuySignal that does not look at inPosition
BuySignalIgnoringPosition(inPos, prevShortMA, prevLongMA, shortMA, longMA) ==
  RLe(prevShortMA, prevLongMA) /\ RGt(shortMA, longMA)

\* variant of BuySignal that needs prevShortMA strictly below prevLongMA
BuySignalStrict(inPos, prevShortMA, prevLongMA, shortMA, longMA) ==
  ~inPos /\ RLt(prevShortMA, prevLongMA) /\ RGt(shortMA, longMA)

\* !inPosition && prevShortMA <= prevLongMA && shortMA > longMA
BuySignal(inPos, prevShortMA, prevLongMA, shortMA, longMA) ==
  ~inPos /\ RLe(prevShortMA, prevLongMA) /\ RGt(shortMA, longMA)

\* inPosition && prevShortMA >= prevLongMA && shortMA < longMA
SellSignal(inPos, prevShortMA, prevLongMA, shortMA, longMA) ==
  inPos /\ RGe(prevShortMA, prevLongMA) /\ RLt(shortMA, longMA)

\* the Trade pushed on entry
BuyTrade(currentPrice, tradeAmount, timestamp) ==
  [type        |-> "buy",
   price       |-> currentPrice,
   quantity    |-> RDiv(tradeAmount, currentPrice),
   total_value |-> tradeAmount,
   pnl         |-> Null,
   timestamp   |-> timestamp]

\* variant of SellTrade whose pnl uses the quantity the amount buys at the exit price
SellTradeExitQuantity(currentPrice, entry, tradeAmount, timestamp) ==
  LET quantity == RDiv(tradeAmount, entry)
  IN  [type        |-> "sell",
       price       |-> currentPrice,
       quantity    |-> quantity,
       total_value |-> RMul(quantity, currentPrice),
       pnl         |-> RMul(RSub(currentPrice, entry), RDiv(tradeAmount, currentPrice)),
       timestamp   |-> timestamp]

\* the Trade pushed on exit (stop loss / take profit, or bearish crossover)
SellTrade(currentPrice, entry, tradeAmount, timestamp) ==
  LET quantity == RDiv(tradeAmount, entry)
  IN  [type        |-> "sell",
       price       |-> currentPrice,
       quantity    |-> quantity,
       total_value |-> RMul(quantity, currentPrice),
       pnl         |-> RMul(RSub(currentPrice, entry), quantity),
       timestamp   |-> timestamp]

\* "Check stop loss / take profit if in position": the loop state after it
CheckExit(st, currentPrice, cfg, timestamp) ==
  IF st.inPosition
     /\ ExitTriggered(PriceChange(currentPrice, st.entryPrice),
                      cfg.stop_loss_percent, cfg.take_profit_percent)
  THEN [st EXCEPT !.trades = Append(@, SellTrade(currentPrice, st.entryPrice,
                                                 cfg.trade_amount, timestamp)),
                  !.inPosition = FALSE]
  ELSE st

\* "MA Crossover signals": the loop state after it
CheckCrossover(st, currentPrice, cfg, timestamp, index, prevShortMA, prevLongMA, shortMA, longMA) ==
  IF BuySignal(st.inPosition, prevShortMA, prevLongMA, shortMA, longMA)
  THEN [inPosition |-> TRUE, entryPrice |-> currentPrice, entryIndex |-> index,
        trades |-> Append(st.trades, BuyTrade(currentPrice, cfg.trade_amount, timestamp))]
  ELSE IF SellSignal(st.inPosition, prevShortMA, prevLongMA, shortMA, longMA)
  THEN [st EXCEPT !.trades = Append(@, SellTrade(currentPrice, st.entryPrice,
                                                 cfg.trade_amount, timestamp)),
                  !.inPosition = FALSE]
  ELSE st

\* one iteration of the for loop, at 0-based bar index; st is the record of
\* the locals inPosition, entryPrice, entryIndex, trades
LoopBody(st, cs, cfg, index) ==
  LET closes      == Closes(cs)
      shortMA     == movingAverage(closes, cfg.short_ma_period, index)
      longMA      == movingAverage(closes, cfg.long_ma_period, index)
      prevShortMA == movingAverage(closes, cfg.short_ma_period, index - 1)
      prevLongMA  == movingAverage(closes, cfg.long_ma_period, index - 1)
  IN  IF Falsy(shortMA) \/ Falsy(longMA) \/ Falsy(prevShortMA) \/ Falsy(prevLongMA)
      THEN st
      ELSE CheckCrossover(CheckExit(st, closes[index + 1], cfg, cs[index + 1].timestamp),
                          closes[index + 1], cfg, cs[index + 1].timestamp, index,
                          prevShortMA, prevLongMA, shortMA, longMA)

(***************************************************************************)
(* Backtest: calculateBacktestMetrics                                      *)
(***************************************************************************)
\* trades[i + 1].pnl || 0
PnlOr0(t) == IF Falsy(t.pnl) THEN RInt(0) ELSE t.pnl

\* the pairing loop: for (i = 0; i < trades.length; i += 2), 0-based index
RECURSIVE PairingLoop(_, _, _)
PairingLoop(ledger, completedTrades, index) ==
  IF index >= Len(ledger) THEN completedTrades
  ELSE PairingLoop(
         ledger,
         IF /\ index + 2 <= Len(ledger)
            /\ ledger[index + 1].type = "buy"
            /\ ledger[index + 2].type = "sell"
         THEN Append(completedTrades,
                     [entry |-> ledger[index + 1], exit |-> ledger[index + 2],
                      pnl |-> PnlOr0(ledger[index + 2])])
         ELSE completedTrades,
         index + 2)

\* variant of the pairing loop that steps by one: a buy followed by a sell is
\* paired at any offset
RECURSIVE PairingLoopAnyOffset(_, _, _)
PairingLoopAnyOffset(ledger, completedTrades, index) ==
  IF index >= Len(ledger) THEN completedTrades
  ELSE PairingLoopAnyOffset(
         ledger,
         IF /\ index + 2 <= Len(ledger)
            /\ ledger[index + 1].type = "buy"
            /\ ledger[index + 2].type = "sell"
         THEN Append(completedTrades,
                     [entry |-> ledger[index + 1], exit |-> ledger[index + 2],
                      pnl |-> PnlOr0(ledger[index + 2])])
         ELSE completedTrades,
         index + 1)

\* variant of CompletedTrades built by that loop
CompletedTradesAnyOffset(ledger) == PairingLoopAnyOffset(ledger, <<>>, 0)

CompletedTrades(ledger) == PairingLoop(ledger, <<>>, 0)

\* "Calculate max drawdown": the loop over pnlList from position k
RECURSIVE DrawdownLoop(_, _, _, _, _)
DrawdownLoop(pnlList, peak, maxDrawdown, currentBalance, k) ==
  IF k > Len(pnlList) THEN maxDrawdown
  ELSE LET balance  == RAdd(currentBalance, pnlList[k])
           newPeak  == IF RGt(balance, peak) THEN balance ELSE peak
           drawdown == RSub(newPeak, balance)
       IN  DrawdownLoop(pnlList, newPeak,
                        IF RGt(drawdown, maxDrawdown) THEN drawdown ELSE maxDrawdown,
                        balance, k + 1)

\* variant of MaxDrawdown whose peak starts at 0 instead of initialBalance
MaxDrawdownPeakFromZero(pnlList, initialBalance) ==
  DrawdownLoop(pnlList, RInt(0), RInt(0), initialBalance, 1)

MaxDrawdown(pnlList, initialBalance) ==
  DrawdownLoop(pnlList, initialBalance, RInt(0), initialBalance, 1)

\* The Sharpe block tests a computed standard deviation against 0, so there the
\* rounding of each operation decides the outcome. A JavaScript number is a
\* binary floating-point value: every operation returns the exact result
\* rounded to the nearest value with a mantissa of MantissaBits bits, ties to
\* the even mantissa. An IEEE double has 53 bits; the width here is one that
\* integers of 32 bits can carry and that leaves, like 53, a remainder of 1
\* when divided by 4, the period of the binary expansion of 1/20 = 5/100.
\* Overflow and underflow of the exponent are not modelled.
MantissaBits == 5

\* x * 2^e, one factor of 2 at a time
RECURSIVE ScaleByPowerOf2(_, _)
ScaleByPowerOf2(x, e) ==
  IF e = 0 THEN x
  ELSE IF e > 0 THEN ScaleByPowerOf2(Rat(2 * x[1], x[2]), e - 1)
  ELSE ScaleByPowerOf2(Rat(x[1], 2 * x[2]), e + 1)

\* <<y, e>> with x = y * 2^e and 2^(MantissaBits - 1) <= y < 2^MantissaBits, for x > 0
RECURSIVE Normalize(_, _)
Normalize(x, e) ==
  IF x[1] \div x[2] >= 2 ^ MantissaBits THEN Normalize(Rat(x[1], 2 * x[2]), e + 1)
  ELSE IF x[1] \div x[2] < 2 ^ (MantissaBits - 1) THEN Normalize(Rat(2 * x[1], x[2]), e - 1)
  ELSE <<x, e>>

\* the integer nearest to y >= 0, ties to even
NearestEven(y) ==
  LET m    == y[1] \div y[2]
      twoR == 2 * (y[1] % y[2])
  IN  IF twoR > y[2] \/ (twoR = y[2] /\ m % 2 = 1) THEN m + 1 ELSE m

\* the floating-point value nearest to the number x
RoundToFloat(x) ==
  IF x[2] = 0 \/ x[1] = 0 THEN x
  ELSE LET ye == Normalize(RAbs(x), 0)
       IN  ScaleByPowerOf2(RInt(Sign(x[1]) * NearestEven(ye[1])), ye[2])

\* a + b, a - b, a * b, a / b of floating-point values
FAdd(a, b) == RoundToFloat(RAdd(a, b))

FSub(a, b) == RoundToFloat(RSub(a, b))

FMul(a, b) == RoundToFloat(RMul(a, b))

FDiv(a, b) == RoundToFloat(RDiv(a, b))

\* returns.reduce((a, b) => a + b, acc), from position i
RECURSIVE FSumFrom(_, _, _)
FSumFrom(returns, acc, i) ==
  IF i > Len(returns) \/ IsNaN(acc) THEN acc
  ELSE FSumFrom(returns, FAdd(acc, returns[i]), i + 1)

\* returns.reduce((sum, r) => sum + Math.pow(r - avgReturn, 2), acc), from position i
RECURSIVE FSumSqDevFrom(_, _, _, _)
FSumSqDevFrom(returns, avgReturn, acc, i) ==
  IF i > Len(returns) \/ IsNaN(acc) THEN acc
  ELSE LET d == FSub(returns[i], avgReturn)
       IN  FSumSqDevFrom(returns, avgReturn, FAdd(acc, FMul(d, d)), i + 1)

\* "Calculate Sharpe ratio (simplified)". The result is value / sqrt(overSqrt):
\* [value |-> 0, overSqrt |-> 1] is 0, a NaN value is NaN. stdDev is
\* Math.sqrt(variance), which is 0 exactly when variance is 0
SharpeRatio(pnlList, initialBalance) ==
  LET n         == RInt(Len(pnlList))
      returns   == [k \in 1 .. Len(pnlList) |->
                      FDiv(RoundToFloat(pnlList[k]), RoundToFloat(initialBalance))]
      avgReturn == FDiv(FSumFrom(returns, RInt(0), 1), n)
      variance  == FDiv(FSumSqDevFrom(returns, avgReturn, RInt(0), 1), n)
  IN  IF variance = RInt(0) THEN [value |-> RInt(0), overSqrt |-> RInt(1)]
      ELSE IF IsNaN(variance) \/ IsNaN(avgReturn) THEN [value |-> NaN, overSqrt |-> NaN]
      ELSE [value |-> avgReturn, overSqrt |-> variance]

\* variant of LossesLoop that never resets the running count
RECURSIVE LossesLoopNoReset(_, _, _, _)
LossesLoopNoReset(pnlList, maxConsecutiveLosses, currentConsecutiveLosses, k) ==
  IF k > Len(pnlList) THEN maxConsecutiveLosses
  ELSE IF RLe(pnlList[k], RInt(0))
  THEN LossesLoopNoReset(pnlList, Max(maxConsecutiveLosses, currentConsecutiveLosses + 1),
                         currentConsecutiveLosses + 1, k + 1)
  ELSE LossesLoopNoReset(pnlList, maxConsecutiveLosses, currentConsecutiveLosses, k + 1)

\* "Max consecutive losses": the loop over pnlList from position k
RECURSIVE LossesLoop(_, _, _, _)
LossesLoop(pnlList, maxConsecutiveLosses, currentConsecutiveLosses, k) ==
  IF k > Len(pnlList) THEN maxConsecutiveLosses
  ELSE IF RLe(pnlList[k], RInt(0))
  THEN LossesLoop(pnlList, Max(maxConsecutiveLosses, currentConsecutiveLosses + 1),
                  currentConsecutiveLosses + 1, k + 1)
  ELSE LossesLoop(pnlList, maxConsecutiveLosses, 0, k + 1)

calculateBacktestMetrics(ledger, initialBalance) ==
  LET completedTrades == CompletedTrades(ledger)
      pnlList         == [k \in 1 .. Len(completedTrades) |-> completedTrades[k].pnl]
      totalPnl        == RSum(pnlList)
      winningTrades   == SelectSeq(pnlList, LAMBDA p : RGt(p, RInt(0)))
      losingTrades    == SelectSeq(pnlList, LAMBDA p : RLe(p, RInt(0)))
  IN  [totalPnl             |-> totalPnl,
       winRate              |-> IF Len(pnlList) > 0
                                THEN Rat(Len(winningTrades), Len(pnlList)) ELSE RInt(0),
       avgPnl               |-> IF Len(pnlList) > 0
                                THEN RDiv(totalPnl, RInt(Len(pnlList))) ELSE RInt(0),
       maxDrawdown          |-> MaxDrawdown(pnlList, initialBalance),
       totalTrades          |-> Len(completedTrades),
       winningTrades        |-> Len(winningTrades),
       losingTrades         |-> Len(losingTrades),
       sharpeRatio          |-> SharpeRatio(pnlList, initialBalance),
       maxConsecutiveLosses |-> LossesLoop(pnlList, 0, 0, 1)]

(***************************************************************************)
(* State                                                                   *)
(***************************************************************************)
VARIABLES
  config,             \* the user's bot_config row (with is_active)
  trades,             \* table trades, in insertion order
  portfolio_history,  \* table portfolio_history, in insertion order
  logRecords,         \* rows the engine invocation in progress appended to bot_logs
  response,           \* body of the engine's HTTP response, until the caller takes it
  lastEval,           \* what that invocation read and computed
  evalCount,          \* number of engine invocations so far
  faults,             \* number of failed inserts (market_context, trades,
                      \* portfolio_history) so far
  now,                \* database clock (created_at / recorded_at DEFAULT now())
  today,              \* clock value at the latest local midnight
  tripped,            \* the engine disabled the bot and nobody re-enabled it since
  btPhase,            \* where the backtest function is: idle, loop, metrics, done
  btCandles,          \* backtest: `candles`, the series fetched
  btI,                \* backtest: `i`, loop index of runMACrossoverBacktest (0-based)
  btInPosition,       \* backtest: `inPosition` of runMACrossoverBacktest
  btEntryPrice,       \* backtest: `entryPrice` of runMACrossoverBacktest
  btEntryIndex,       \* backtest: `entryIndex` of runMACrossoverBacktest
  btTrades,           \* backtest: `trades`, the ledger of runMACrossoverBacktest
  metrics,            \* backtest: result of calculateBacktestMetrics
  backtest_runs,      \* table backtest_runs, in insertion order
  btResponse,         \* body of the backtest function's HTTP response
  unit,               \* the unit a behaviour exercises: one of the two functions,
                      \* calculateBacktestMetrics alone, or the indicator library
  indCandles,         \* indicator library: the series handed to the indicators
  indPeriod,          \* indicator library: the `period` argument
  indResult,          \* indicator library: what the indicators returned
  regimeTrend,        \* determineRegime: the `trend` argument of the latest call
  regimeVolatility,   \* determineRegime: its `volatility` argument
  regimeResult,       \* determineRegime: what it returned ("none" before a call)
  regimeDecision,     \* the decision logic applied to that regime: the indicators
                      \* and last trade it read, and its decision
  invocations         \* overlapping engine invocations: the locals of each

liveVars == <<config, trades, portfolio_history, logRecords, response, lastEval,
              evalCount, faults, now, today, tripped>>

btVars == <<btPhase, btCandles, btI, btInPosition, btEntryPrice, btEntryIndex,
            btTrades, metrics, backtest_runs, btResponse>>

unitVars == <<unit, indCandles, indPeriod, indResult,
              regimeTrend, regimeVolatility, regimeResult, regimeDecision, invocations>>

vars == <<config, trades, portfolio_history, logRecords, response, lastEval,
          evalCount, faults, now, today, tripped, btPhase, btCandles, btI, btInPosition,
          btEntryPrice, btEntryIndex, btTrades, metrics, backtest_runs, btResponse,
          unit, indCandles, indPeriod, indResult,
          regimeTrend, regimeVolatility, regimeResult, regimeDecision, invocations>>


(***************************************************************************)
(* Live engine: the serve handler as one step                              *)
(***************************************************************************)
\* most engine invocations in one behaviour
MaxEvals == 3

\* most failed inserts (market_context, trades, portfolio_history) in one behaviour
MaxFaults == 1

NoResponse == [kind |-> "none"]

NoEval == [reached |-> "none"]

\* tradePnL of the handler
TradePnL(action, ind, lastTrade) ==
  IF action = "sell" /\ lastTrade # Null
  THEN RMul(RSub(ind.price, lastTrade.price), lastTrade.quantity)
  ELSE RInt(0)

\* the row inserted into trades
TradeRow(action, ind, adjustedTradeAmount, tradePnL, at) ==
  [trade_type  |-> action,
   price       |-> ind.price,
   quantity    |-> RDiv(adjustedTradeAmount, ind.price),
   total_value |-> adjustedTradeAmount,
   pnl         |-> tradePnL,
   status      |-> "executed",
   created_at  |-> at]

\* let newBalance = lastPortfolio?.available_balance || 10000
StartingBalance(lastPortfolio) ==
  IF lastPortfolio # Null /\ Truthy(lastPortfolio.available_balance)
  THEN lastPortfolio.available_balance ELSE RInt(10000)

\* the row inserted into portfolio_history ("Update portfolio history")
PortfolioRow(action, totalValue, tradePnL, lastPortfolio, at) ==
  LET balance0   == StartingBalance(lastPortfolio)
      totalPnL0  == IF lastPortfolio # Null /\ Truthy(lastPortfolio.total_pnl)
                    THEN lastPortfolio.total_pnl ELSE RInt(0)
      newBalance == IF action = "buy" THEN RSub(balance0, totalValue)
                    ELSE RAdd(balance0, totalValue)
      totalPnL   == IF action = "buy" THEN totalPnL0 ELSE RAdd(totalPnL0, tradePnL)
  IN  [total_value            |-> RAdd(newBalance, IF action = "buy" THEN totalValue ELSE RInt(0)),
       available_balance      |-> newBalance,
       in_position            |-> action = "buy",
       current_position_value |-> IF action = "buy" THEN totalValue ELSE RInt(0),
       total_pnl              |-> totalPnL,
       recorded_at            |-> at]

\* variant of LimitReached that trips on losses only
LimitReachedOnLossOnly(todayPnL, cfg) == RLe(todayPnL, RNeg(cfg.max_daily_loss))

\* Math.abs(todayPnL) >= config.max_daily_loss
LimitReached(todayPnL, cfg) == RGe(RAbs(todayPnL), cfg.max_daily_loss)

\* variant of EvaluateInactive that switches the bot back on
EvaluateInactiveReactivates ==
  /\ ~config.is_active
  /\ config' = [config EXCEPT !.is_active = TRUE]
  /\ response' = [kind |-> "inactive", message |-> "Bot is not active"]
  /\ logRecords' = <<>>
  /\ lastEval' = [reached |-> "is_active"]
  /\ UNCHANGED <<trades, portfolio_history, faults, now, today, tripped>>

\* if (!config.is_active) return 'Bot is not active'
EvaluateInactive ==
  /\ ~config.is_active
  /\ response' = [kind |-> "inactive", message |-> "Bot is not active"]
  /\ logRecords' = <<>>
  /\ lastEval' = [reached |-> "is_active"]
  /\ UNCHANGED <<config, trades, portfolio_history, faults, now, today, tripped>>

\* candles.length === 0: throw, caught by the handler's catch (status 500)
EvaluateNoCandles ==
  /\ config.is_active
  /\ <<>> \in CandleWindows
  /\ response' = [kind |-> "error", error |-> "Failed to fetch market data"]
  /\ logRecords' = <<>>
  /\ lastEval' = [reached |-> "candles", windowLength |-> 0]
  /\ UNCHANGED <<config, trades, portfolio_history, faults, now, today, tripped>>

\* variant of EvaluateLimit that answers and logs but leaves is_active as it is
EvaluateLimitKeepsActive(ind, candleCount, sentiment, contextLogs, todayPnL) ==
  /\ LimitReached(todayPnL, config)
  /\ tripped' = TRUE
  /\ response' = [kind |-> "limit", success |-> FALSE,
                  message |-> "Daily loss limit reached. Bot automatically paused.",
                  todayPnL |-> todayPnL]
  /\ logRecords' = <<Log("info", "engine_start")>> \o contextLogs
                   \o <<Log("warn", "safety_limit")>>
  /\ lastEval' = [reached |-> "limit", todayPnL |-> todayPnL,
                  indicators |-> ind, windowLength |-> candleCount,
                  lastTrade |-> Null]
  /\ faults' = faults + Len(contextLogs)
  /\ UNCHANGED <<config, trades, portfolio_history, now, today>>

\* "Check daily loss limit": the limit is reached, the bot is disabled
EvaluateLimit(ind, candleCount, sentiment, contextLogs, todayPnL) ==
  /\ LimitReached(todayPnL, config)
  /\ config' = [config EXCEPT !.is_active = FALSE]
  /\ tripped' = TRUE
  /\ response' = [kind |-> "limit", success |-> FALSE,
                  message |-> "Daily loss limit reached. Bot automatically paused.",
                  todayPnL |-> todayPnL]
  /\ logRecords' = <<Log("info", "engine_start")>> \o contextLogs
                   \o <<Log("warn", "safety_limit")>>
  /\ lastEval' = [reached |-> "limit", todayPnL |-> todayPnL,
                  indicators |-> ind, windowLength |-> candleCount,
                  lastTrade |-> Null]
  /\ faults' = faults + Len(contextLogs)
  /\ UNCHANGED <<trades, portfolio_history, now, today>>

\* lines 297-486: decision, trade execution, portfolio update, response
EvaluateDecide(ind, candleCount, sentiment, contextLogs, todayPnL) ==
  /\ ~LimitReached(todayPnL, config)
  /\ \E lastTrade \in LatestBy(trades, CreatedAt) :
       LET sizing   == PositionSizing(config, ind, sentiment)
           adjusted == sizing[1]
           d        == Decide(config, ind, lastTrade)
           tradePnL == TradePnL(d.action, ind, lastTrade)
           head     == <<Log("info", "engine_start")>> \o contextLogs \o sizing[2] \o d.logs
       IN  /\ response' = [kind |-> "decision", success |-> TRUE,
                           action |-> d.action, reason |-> d.reason,
                           indicators |-> ind @@ [sentiment |-> sentiment]]
           /\ lastEval' = [reached |-> "decision", todayPnL |-> todayPnL,
                           indicators |-> ind, windowLength |-> candleCount,
                           lastTrade |-> lastTrade,
                           adjustedTradeAmount |-> adjusted]
           /\ UNCHANGED <<config, today, tripped>>
           /\ IF d.action # "hold"
              THEN \E tradeError \in BOOLEAN, portfolioError \in BOOLEAN :
                     LET nFaults == Len(contextLogs)
                                    + (IF tradeError THEN 1 ELSE 0)
                                    + (IF portfolioError THEN 1 ELSE 0)
                     IN
                     /\ faults + nFaults <= MaxFaults
                     /\ faults' = faults + nFaults
                     /\ trades' = IF tradeError THEN trades
                                  ELSE Append(trades, TradeRow(d.action, ind, adjusted, tradePnL, now))
                     /\ \E lastPortfolio \in LatestBy(portfolio_history, RecordedAt) :
                          portfolio_history' =
                            IF portfolioError THEN portfolio_history
                            ELSE Append(portfolio_history,
                                        PortfolioRow(d.action, adjusted, tradePnL, lastPortfolio, now))
                     /\ now' = IF tradeError /\ portfolioError THEN now ELSE now + 1
                     /\ logRecords' =
                          head \o <<Log("info", "trade_signal")>>
                          \o (IF tradeError THEN <<Log("error", "trade_execution")>>
                              ELSE <<Log("info", "trade_executed")>>)
                          \o (IF portfolioError THEN <<Log("error", "portfolio_update")>>
                              ELSE <<>>)
              ELSE /\ logRecords' = head \o <<Log("info", "no_action")>>
                   /\ faults' = faults + Len(contextLogs)
                   /\ UNCHANGED <<trades, portfolio_history, now>>

\* lines 194-295: candles fetched, indicators computed, market context stored,
\* daily loss limit checked
EvaluateActive ==
  /\ config.is_active
  /\ \E snapshot \in IndicatorSnapshots, sentiment \in Sentiments,
        contextError \in BOOLEAN :
       /\ snapshot[1] = <<config.short_ma_period, config.long_ma_period>>
       /\ contextError => faults < MaxFaults
       /\ LET ind == snapshot[2]
              candleCount == snapshot[3]
              contextLogs == IF contextError
                             THEN <<Log("error", "context_storage")>> ELSE <<>>
              todayPnL == TodayPnL(trades, today)
          IN  \/ EvaluateLimit(ind, candleCount, sentiment, contextLogs, todayPnL)
              \/ EvaluateDecide(ind, candleCount, sentiment, contextLogs, todayPnL)

\* one invocation of the trading-engine function (serve handler, lines 154-498);
\* invocations are sequential: the previous response has been taken
Evaluate ==
  /\ response = NoResponse
  /\ evalCount < MaxEvals
  /\ evalCount' = evalCount + 1
  /\ (EvaluateInactive \/ EvaluateNoCandles \/ EvaluateActive)
  /\ UNCHANGED btVars
  /\ UNCHANGED unitVars

(***************************************************************************)
(* Environment of the engine                                               *)
(***************************************************************************)
\* BotStatus.runTradingEngine: the awaited invoke returns, the caller shows a toast
RunTradingEngineReturns ==
  /\ response # NoResponse
  /\ response' = NoResponse
  /\ logRecords' = <<>>
  /\ lastEval' = NoEval
  /\ UNCHANGED <<config, trades, portfolio_history, evalCount, faults, now, today,
                 tripped>>
  /\ UNCHANGED btVars
  /\ UNCHANGED unitVars

\* BotStatus.toggleBot: update({is_active: !isActive}); isActive is the
\* component's copy of the flag and may be stale
ToggleBot ==
  /\ response = NoResponse
  /\ \E isActive \in BOOLEAN :
       /\ config' = [config EXCEPT !.is_active = ~isActive]
       /\ tripped' = (tripped /\ isActive)
  /\ UNCHANGED <<trades, portfolio_history, logRecords, response, lastEval,
                 evalCount, faults, now, today>>
  /\ UNCHANGED btVars
  /\ UNCHANGED unitVars

\* StrategyConfig.handleSave: update(config) with the form's values
HandleSave ==
  /\ response = NoResponse
  /\ \E c \in Configs :
       config' = c @@ [is_active |-> config.is_active]
  /\ UNCHANGED <<trades, portfolio_history, logRecords, response, lastEval,
                 evalCount, faults, now, today, tripped>>
  /\ UNCHANGED btVars
  /\ UNCHANGED unitVars

\* local midnight passes: `today` of later invocations moves up
Midnight ==
  /\ response = NoResponse
  /\ today < now
  /\ today' = now
  /\ UNCHANGED <<config, trades, portfolio_history, logRecords, response, lastEval,
                 evalCount, faults, now, tripped>>
  /\ UNCHANGED btVars
  /\ UNCHANGED unitVars

(***************************************************************************)
(* Backtest function: inputs                                               *)
(***************************************************************************)
\* most candles in the fetched series
MaxBars == 5

\* closes of the fetched candles
BacktestCloses == {97, 100, 101, 110}

\* candlesRaw.map(...): bar k (1-based) carries timestamp k - 1
CandleSeries ==
  UNION {{[k \in 1 .. n |-> [timestamp |-> k - 1, close |-> RInt(f[k])]] :
            f \in [1 .. n -> BacktestCloses]} : n \in 0 .. MaxBars}

\* rows of bot_config a backtest runs with
BacktestConfigs ==
  {[short_ma_period |-> pp[1], long_ma_period |-> pp[2], trade_amount |-> RInt(100),
    stop_loss_percent |-> RInt(2), take_profit_percent |-> RInt(5),
    max_daily_loss |-> RInt(3), is_active |-> FALSE] :
     pp \in {<<1, 2>>, <<2, 1>>, <<2, 3>>}}

\* most entries of a ledger handed to calculateBacktestMetrics
MaxLedger == 6

\* entries of such a ledger (only type and pnl are read)
LedgerEntries ==
  {BuyTrade(RInt(100), RInt(100), 0)}
  \cup {[SellTrade(RInt(100), RInt(100), RInt(100), 0) EXCEPT !.pnl = RInt(p)] :
          p \in {-3, 0, 5}}

Ledgers == UNION {[1 .. n -> LedgerEntries] : n \in 0 .. MaxLedger}

(***************************************************************************)
(* Backtest function: the handler, one step per loop iteration             *)
(***************************************************************************)
\* the request arrives: config loaded, candles fetched, loop locals initialised
BacktestStart ==
  /\ btPhase = "idle"
  /\ \E series \in CandleSeries : btCandles' = series
  /\ btI' = 0
  /\ btInPosition' = FALSE
  /\ btEntryPrice' = RInt(0)
  /\ btEntryIndex' = 0
  /\ btTrades' = <<>>
  /\ btPhase' = "loop"
  /\ UNCHANGED <<metrics, backtest_runs, btResponse>>
  /\ UNCHANGED liveVars
  /\ UNCHANGED unitVars

\* the fetch or the config lookup throws: the catch answers with status 400
BacktestError ==
  /\ btPhase = "idle"
  /\ btResponse' = [kind |-> "error"]
  /\ btPhase' = "done"
  /\ UNCHANGED <<btCandles, btI, btInPosition, btEntryPrice, btEntryIndex, btTrades,
                 metrics, backtest_runs>>
  /\ UNCHANGED liveVars
  /\ UNCHANGED unitVars

\* one iteration of the for loop of runMACrossoverBacktest
BacktestBar ==
  /\ btPhase = "loop"
  /\ btI < Len(btCandles)
  /\ LET st == LoopBody([inPosition |-> btInPosition, entryPrice |-> btEntryPrice,
                         entryIndex |-> btEntryIndex, trades |-> btTrades],
                        btCandles, config, btI)
     IN  /\ btInPosition' = st.inPosition
         /\ btEntryPrice' = st.entryPrice
         /\ btEntryIndex' = st.entryIndex
         /\ btTrades' = st.trades
  /\ btI' = btI + 1
  /\ UNCHANGED <<btPhase, btCandles, metrics, backtest_runs, btResponse>>
  /\ UNCHANGED liveVars
  /\ UNCHANGED unitVars

\* the row inserted into backtest_runs
BacktestRunRow(m) ==
  [total_pnl |-> m.totalPnl, win_rate |-> m.winRate, max_drawdown |-> m.maxDrawdown,
   avg_pnl |-> m.avgPnl, total_trades |-> m.totalTrades]

\* portfolioSnapshots: one row per sell, with the running cumulativePnl
RECURSIVE PortfolioSnapshots(_, _, _, _, _)
PortfolioSnapshots(ledger, tradeAmount, cumulativePnl, rows, k) ==
  IF k > Len(ledger) THEN rows
  ELSE IF ledger[k].type # "sell"
  THEN PortfolioSnapshots(ledger, tradeAmount, cumulativePnl, rows, k + 1)
  ELSE LET cum == RAdd(cumulativePnl, PnlOr0(ledger[k]))
       IN  PortfolioSnapshots(
             ledger, tradeAmount, cum,
             Append(rows, [total_value            |-> RAdd(tradeAmount, cum),
                           available_balance      |-> RAdd(tradeAmount, cum),
                           total_pnl              |-> cum,
                           in_position            |-> FALSE,
                           current_position_value |-> Null,
                           recorded_at            |-> ledger[k].timestamp]),
             k + 1)

\* the loop is over: metrics, the three inserts, the response. The rows for
\* `trades` carry status 'simulated', which the CHECK on trades.status rejects:
\* that insert fails and stores nothing
BacktestFinish ==
  /\ btPhase = "loop"
  /\ btI = Len(btCandles)
  /\ LET m         == calculateBacktestMetrics(btTrades, config.trade_amount)
         snapshots == PortfolioSnapshots(btTrades, config.trade_amount, RInt(0), <<>>, 1)
     IN  /\ metrics' = m
         /\ \E runError \in BOOLEAN :
              backtest_runs' = IF runError THEN backtest_runs
                               ELSE Append(backtest_runs, BacktestRunRow(m))
         /\ \E portfolioError \in BOOLEAN :
              portfolio_history' = IF portfolioError THEN portfolio_history
                                   ELSE portfolio_history \o snapshots
         /\ btResponse' = [kind |-> "done", success |-> TRUE, metrics |-> m,
                           trades |-> Len(btTrades)]
  /\ btPhase' = "done"
  /\ UNCHANGED <<btCandles, btI, btInPosition, btEntryPrice, btEntryIndex, btTrades>>
  /\ UNCHANGED <<config, trades, logRecords, response, lastEval, evalCount, faults,
                 now, today, tripped>>
  /\ UNCHANGED unitVars

\* calculateBacktestMetrics applied to a ledger
CalculateMetrics ==
  /\ btPhase = "metrics"
  /\ metrics' = calculateBacktestMetrics(btTrades, config.trade_amount)
  /\ btPhase' = "done"
  /\ UNCHANGED <<btCandles, btI, btInPosition, btEntryPrice, btEntryIndex, btTrades,
                 backtest_runs, btResponse>>
  /\ UNCHANGED liveVars
  /\ UNCHANGED unitVars

(***************************************************************************)
(* Indicator library: the functions applied to a series                    *)
(***************************************************************************)
\* most candles in a series handed to the indicators
MaxSeries == 4

\* closes of such a series
IndicatorCloses == {98, 100, 103}

\* high = close + spread, low = close - spread; 0 gives bars with no range
IndicatorSpreads == {0, 2}

\* the `period` argument: short ones, and 14, the default of RSI, ATR and ADX
IndicatorPeriods == {1, 2, 3, 14}

IndicatorSeries ==
  UNION {{[k \in 1 .. n |-> Candle(f[k], spread)] :
            f \in [1 .. n -> IndicatorCloses], spread \in IndicatorSpreads} :
         n \in 0 .. MaxSeries}

\* every indicator applied to the series with the period; movingAverage at
\* every index the backtest loop passes (i and i - 1 for each bar i)
ApplyIndicators(cs, period) ==
  [sma   |-> calculateSMA(Closes(cs), period),
   ema   |-> calculateEMA(Closes(cs), period),
   rsi   |-> calculateRSI(Closes(cs), period),
   atr   |-> calculateATR(Highs(cs), Lows(cs), Closes(cs), period),
   bollingerBands |-> calculateBollingerBands(Closes(cs), period),
   adx   |-> calculateADX(Highs(cs), Lows(cs), Closes(cs), period),
   movingAverage |-> [index \in -1 .. Len(cs) - 1 |->
                        movingAverage(Closes(cs), period, index)]]

\* the indicators are called on the series
ComputeIndicators ==
  /\ unit = "indicators"
  /\ indResult = Null
  /\ indResult' = ApplyIndicators(indCandles, indPeriod)
  /\ UNCHANGED <<unit, indCandles, indPeriod, regimeTrend, regimeVolatility,
                 regimeResult, regimeDecision, invocations>>
  /\ UNCHANGED liveVars
  /\ UNCHANGED btVars

\* trendStrength handed to determineRegime: the handler passes the RSI, a
\* number between 0 and 100
RegimeTrends == {RInt(t) : t \in 0 .. 100}

\* volatility handed to determineRegime: ATR as a percentage of the close
RegimeVolatilities == {RInt(0), RInt(2), RInt(9)}

\* determineRegime is called for a bar; what it returned for the bar before is
\* still in regimeResult when the call is made. A behaviour classifies bar
\* after bar and ends with the decision taken on the last one
ClassifyRegime ==
  /\ unit = "determineRegime"
  /\ regimeDecision = Null
  /\ \E trend \in RegimeTrends, volatility \in RegimeVolatilities :
       /\ regimeTrend' = trend
       /\ regimeVolatility' = volatility
       /\ regimeResult' = determineRegime(trend, volatility)
  /\ UNCHANGED <<unit, indCandles, indPeriod, indResult, regimeDecision, invocations>>
  /\ UNCHANGED liveVars
  /\ UNCHANGED btVars

\* values of the other indicators the decision logic reads:
\* <<adx, shortMA, longMA, macd, currentPrice>>; the Bollinger bands are
\* 100 +- 2, and signal = macd * 0.9 as calculateMACD returns it
RegimeIndicatorShapes ==
  {<<RInt(adx), RInt(shortMA), RInt(100), RInt(macd), RInt(price)>> :
     adx \in {0, 25}, shortMA \in {99, 101}, macd \in {-1, 1}, price \in {97, 100, 103}}

\* the most recent trade the decision logic finds: none, or a buy at 100
RegimeLastTrades ==
  {Null, [trade_type |-> "buy", price |-> RInt(100), quantity |-> RInt(1)]}

\* the indicator values of an invocation whose RSI is rsi
RegimeIndicators(rsi, volatility, regime, shape) ==
  [price          |-> shape[5],
   shortMA        |-> shape[2],
   longMA         |-> shape[3],
   rsi            |-> rsi,
   atr            |-> RDiv(RMul(volatility, shape[5]), RInt(100)),
   volatility     |-> volatility,
   regime         |-> regime,
   macd           |-> shape[4],
   signal         |-> RMul(shape[4], Rat(9, 10)),
   adx            |-> shape[1],
   bollingerBands |-> [middle |-> RInt(100), variance |-> RInt(1)]]

\* the decision logic of the handler (lines 297-379) runs on the regime
\* determineRegime returned for trendStrength = rsi
DecideForRegime ==
  /\ unit = "determineRegime"
  /\ regimeResult # "none"
  /\ regimeDecision = Null
  /\ \E shape \in RegimeIndicatorShapes, lastTrade \in RegimeLastTrades :
       LET ind == RegimeIndicators(regimeTrend, regimeVolatility, regimeResult, shape)
       IN  regimeDecision' = [indicators |-> ind, lastTrade |-> lastTrade,
                              decision |-> Decide(config, ind, lastTrade)]
  /\ UNCHANGED <<unit, indCandles, indPeriod, indResult, regimeTrend, regimeVolatility,
                 regimeResult, invocations>>
  /\ UNCHANGED liveVars
  /\ UNCHANGED btVars

(***************************************************************************)
(* Live engine: two invocations for one user that may overlap              *)
(***************************************************************************)
\* the invocations: the handler awaits every query, so another invocation
\* can run between the read of the last trade (line 318) and the insert of
\* the trade (line 401)
Invocations == {1, 2}

\* no invocation has started
NoInvocations == [e \in Invocations |-> [pc |-> "start"]]

\* the invocation returned
Returned(kind, logs) == [pc |-> "returned", kind |-> kind, logs |-> logs]

\* lines 154-399 of one invocation: config, candles, indicators, market
\* context, daily loss limit, last trade, decision and tradePnL
InvocationDecides(e) ==
  /\ unit = "trading-engine, overlapping"
  /\ invocations[e].pc = "start"
  /\ \/ /\ ~config.is_active
        /\ invocations' = [invocations EXCEPT ![e] = Returned("inactive", <<>>)]
        /\ UNCHANGED <<config, faults, tripped>>
     \/ /\ config.is_active
        /\ <<>> \in CandleWindows
        /\ invocations' = [invocations EXCEPT ![e] = Returned("error", <<>>)]
        /\ UNCHANGED <<config, faults, tripped>>
     \/ /\ config.is_active
        /\ \E snapshot \in IndicatorSnapshots, sentiment \in Sentiments,
              contextError \in BOOLEAN :
             /\ snapshot[1] = <<config.short_ma_period, config.long_ma_period>>
             /\ contextError => faults < MaxFaults
             /\ faults' = faults + (IF contextError THEN 1 ELSE 0)
             /\ LET ind      == snapshot[2]
                    head     == <<Log("info", "engine_start")>>
                                \o (IF contextError
                                    THEN <<Log("error", "context_storage")>> ELSE <<>>)
                    todayPnL == TodayPnL(trades, today)
                IN  IF LimitReached(todayPnL, config)
                    THEN /\ config' = [config EXCEPT !.is_active = FALSE]
                         /\ tripped' = TRUE
                         /\ invocations' =
                              [invocations EXCEPT ![e] =
                                 Returned("limit", head \o <<Log("warn", "safety_limit")>>)]
                    ELSE /\ UNCHANGED <<config, tripped>>
                         /\ \E lastTrade \in LatestBy(trades, CreatedAt) :
                              LET sizing == PositionSizing(config, ind, sentiment)
                                  d      == Decide(config, ind, lastTrade)
                              IN  invocations' =
                                    [invocations EXCEPT ![e] =
                                       IF d.action = "hold"
                                       THEN Returned("decision",
                                                     head \o sizing[2] \o d.logs
                                                     \o <<Log("info", "no_action")>>)
                                       ELSE [pc        |-> "insert",
                                             action    |-> d.action,
                                             reason    |-> d.reason,
                                             indicators |-> ind,
                                             lastTrade |-> lastTrade,
                                             adjustedTradeAmount |-> sizing[1],
                                             tradePnL  |-> TradePnL(d.action, ind, lastTrade),
                                             logs      |-> head \o sizing[2] \o d.logs
                                                           \o <<Log("info", "trade_signal")>>]]
  /\ UNCHANGED <<trades, portfolio_history, logRecords, response, lastEval, evalCount,
                 now, today>>
  /\ UNCHANGED btVars
  /\ UNCHANGED <<unit, indCandles, indPeriod, indResult, regimeTrend, regimeVolatility,
                 regimeResult, regimeDecision>>

\* lines 401-486 of one invocation: the trade insert, the portfolio update,
\* the response
InvocationRecords(e) ==
  /\ unit = "trading-engine, overlapping"
  /\ invocations[e].pc = "insert"
  /\ LET inv == invocations[e]
     IN  \E tradeError \in BOOLEAN, portfolioError \in BOOLEAN :
           LET nFaults == (IF tradeError THEN 1 ELSE 0) + (IF portfolioError THEN 1 ELSE 0)
           IN  /\ faults + nFaults <= MaxFaults
               /\ faults' = faults + nFaults
               /\ trades' = IF tradeError THEN trades
                            ELSE Append(trades, TradeRow(inv.action, inv.indicators,
                                                         inv.adjustedTradeAmount,
                                                         inv.tradePnL, now))
               /\ \E lastPortfolio \in LatestBy(portfolio_history, RecordedAt) :
                    portfolio_history' =
                      IF portfolioError THEN portfolio_history
                      ELSE Append(portfolio_history,
                                  PortfolioRow(inv.action, inv.adjustedTradeAmount,
                                               inv.tradePnL, lastPortfolio, now))
               /\ now' = IF tradeError /\ portfolioError THEN now ELSE now + 1
               /\ invocations' =
                    [invocations EXCEPT ![e] =
                       Returned("decision",
                                inv.logs
                                \o (IF tradeError THEN <<Log("error", "trade_execution")>>
                                    ELSE <<Log("info", "trade_executed")>>)
                                \o (IF portfolioError THEN <<Log("error", "portfolio_update")>>
                                    ELSE <<>>))
                       @@ [action |-> inv.action, lastTrade |-> inv.lastTrade]]
  /\ UNCHANGED <<config, logRecords, response, lastEval, evalCount, today, tripped>>
  /\ UNCHANGED btVars
  /\ UNCHANGED <<unit, indCandles, indPeriod, indResult, regimeTrend, regimeVolatility,
                 regimeResult, regimeDecision>>

(***************************************************************************)
(* Specifications                                                          *)
(***************************************************************************)
\* the indicator library not exercised on its own
IndicatorsIdle ==
  /\ indCandles = <<>> /\ indPeriod = 14 /\ indResult = Null
  /\ regimeTrend = RInt(50) /\ regimeVolatility = RInt(0) /\ regimeResult = "none"
  /\ regimeDecision = Null
  /\ invocations = NoInvocations

\* the backtest function at rest
BacktestIdle ==
  /\ btCandles = <<>> /\ btI = 0 /\ btInPosition = FALSE /\ btEntryPrice = RInt(0)
  /\ btEntryIndex = 0 /\ btTrades = <<>> /\ metrics = Null /\ backtest_runs = <<>>
  /\ btResponse = NoResponse

\* a new user: empty tables, no engine invocation yet
LiveIdle ==
  /\ trades = <<>> /\ portfolio_history = <<>> /\ logRecords = <<>>
  /\ response = NoResponse /\ lastEval = NoEval /\ evalCount = 0
  /\ faults = 0 /\ now = 0 /\ today = 0 /\ tripped = FALSE

\* the live engine and its environment; bot_config.is_active DEFAULT false
Init ==
  /\ config \in {c @@ [is_active |-> FALSE] : c \in Configs}
  /\ LiveIdle
  /\ btPhase = "idle"
  /\ BacktestIdle
  /\ unit = "trading-engine"
  /\ IndicatorsIdle

Next == Evaluate \/ RunTradingEngineReturns \/ ToggleBot \/ HandleSave \/ Midnight

Spec == Init /\ [][Next]_vars

\* one run of the backtest function
InitBT ==
  /\ config \in BacktestConfigs
  /\ LiveIdle
  /\ btPhase = "idle"
  /\ BacktestIdle
  /\ unit = "backtest"
  /\ IndicatorsIdle

NextBT == BacktestStart \/ BacktestError \/ BacktestBar \/ BacktestFinish

SpecBT == InitBT /\ [][NextBT]_vars

\* calculateBacktestMetrics over every ledger of up to MaxLedger entries
InitMetrics ==
  /\ config \in BacktestConfigs
  /\ LiveIdle
  /\ btPhase = "metrics"
  /\ btTrades \in Ledgers
  /\ btCandles = <<>> /\ btI = 0 /\ btInPosition = FALSE /\ btEntryPrice = RInt(0)
  /\ btEntryIndex = 0 /\ metrics = Null /\ backtest_runs = <<>>
  /\ btResponse = NoResponse
  /\ unit = "calculateBacktestMetrics"
  /\ IndicatorsIdle

NextMetrics == CalculateMetrics

SpecMetrics == InitMetrics /\ [][NextMetrics]_vars

\* the indicator functions over every series of up to MaxSeries candles
InitIndicators ==
  /\ config \in {c \in BacktestConfigs : c.short_ma_period = 1}
  /\ LiveIdle
  /\ btPhase = "idle"
  /\ BacktestIdle
  /\ unit = "indicators"
  /\ indCandles \in IndicatorSeries
  /\ indPeriod \in IndicatorPeriods
  /\ indResult = Null
  /\ regimeTrend = RInt(50) /\ regimeVolatility = RInt(0) /\ regimeResult = "none"
  /\ regimeDecision = Null
  /\ invocations = NoInvocations

NextIndicators == ComputeIndicators

SpecIndicators == InitIndicators /\ [][NextIndicators]_vars

\* determineRegime called bar after bar, and the decision logic on its result
InitRegime ==
  /\ config \in {c \in BacktestConfigs : c.short_ma_period = 1}
  /\ LiveIdle
  /\ btPhase = "idle"
  /\ BacktestIdle
  /\ unit = "determineRegime"
  /\ IndicatorsIdle

NextRegime == ClassifyRegime \/ DecideForRegime

SpecRegime == InitRegime /\ [][NextRegime]_vars

\* two invocations of the engine for an active bot with empty tables; they
\* run one after the other or overlap
InitOverlap ==
  /\ config \in {c @@ [is_active |-> TRUE] : c \in Configs}
  /\ LiveIdle
  /\ btPhase = "idle"
  /\ BacktestIdle
  /\ unit = "trading-engine, overlapping"
  /\ IndicatorsIdle

NextOverlap == \E e \in Invocations : InvocationDecides(e) \/ InvocationRecords(e)

SpecOverlap == InitOverlap /\ [][NextOverlap]_vars

\* one behaviour exercises one of the two functions: the live engine with its
\* environment, or a run of the backtest
InitFunctions == Init \/ InitBT

NextFunctions ==
  \/ unit = "trading-engine" /\ Next
  \/ unit = "backtest" /\ NextBT

SpecFunctions == InitFunctions /\ [][NextFunctions]_vars

(***************************************************************************)
(* Properties of the live engine (under Spec)                              *)
(***************************************************************************)
\* an engine invocation's step
EngineStep == evalCount' = evalCount + 1

\* the position the latest invocation derived from the most recent trade
WasLong == lastEval.lastTrade # Null /\ lastEval.lastTrade.trade_type = "buy"

\* C1: across sequential engine evaluations a Buy is decided only when the
\* position derived from the most recent trade is Flat and a Sell only when it
\* is Long, so the ledger of executed trades starts with a buy and never holds
\* two consecutive buys or two consecutive sells.
C1_LivePositionInvariant ==
  /\ \A k \in 1 .. Len(trades) - 1 : trades[k].trade_type # trades[k + 1].trade_type
  /\ (trades # <<>> => trades[1].trade_type = "buy")
  /\ (response.kind = "decision" /\ response.action = "buy" => ~WasLong)
  /\ (response.kind = "decision" /\ response.action = "sell" => WasLong)

\* a ledger that went buy, sell, buy
C1_Witness ==
  /\ Len(trades) = 3
  /\ trades[1].trade_type = "buy"
  /\ trades[2].trade_type = "sell"
  /\ trades[3].trade_type = "buy"

\* priceChange of the latest invocation, against the entry it read
C3_PriceChange == PriceChange(lastEval.indicators.price, lastEval.lastTrade.price)

\* C3: in an evaluation that reached the decision logic (breaker not tripped)
\* with the position Long, priceChange <= -stopLossPercent gives a Sell whose
\* reason names the stop loss, and otherwise priceChange >= takeProfitPercent
\* gives a Sell whose reason names the take profit, whatever the indicators
\* and the volatility are.
C3_ProtectiveExits ==
  (response.kind = "decision" /\ WasLong) =>
    /\ RLe(C3_PriceChange, RNeg(config.stop_loss_percent))
         => response.action = "sell" /\ response.reason = "Stop loss triggered"
    /\ (/\ ~RLe(C3_PriceChange, RNeg(config.stop_loss_percent))
        /\ RGe(C3_PriceChange, config.take_profit_percent))
         => response.action = "sell" /\ response.reason = "Take profit triggered"

\* sum of pnl over the rows of `trades` numbered in S
RECURSIVE C4_SumPnl(_)
C4_SumPnl(S) ==
  IF S = {} THEN RInt(0)
  ELSE LET k == CHOOSE x \in S : TRUE
       IN  RAdd(IF trades[k].pnl = Null THEN RInt(0) ELSE trades[k].pnl,
                C4_SumPnl(S \ {k}))

\* today's cumulative realized PnL, from the table
C4_TodayRealizedPnl ==
  C4_SumPnl({k \in 1 .. Len(trades) : trades[k].created_at >= today})

\* C4: an evaluation that reaches the daily-loss check (bot active, candles
\* fetched) with |today's realized PnL| >= max_daily_loss, a loss or a gain,
\* sets is_active to false, answers that the limit is reached and records no
\* trade and no portfolio snapshot, whatever the indicators and the position.
C4_CircuitBreaker ==
  [][(/\ EngineStep
      /\ config.is_active
      /\ lastEval'.reached \in {"limit", "decision"}
      /\ RGe(RAbs(C4_TodayRealizedPnl), config.max_daily_loss))
     => (/\ ~config'.is_active
         /\ response'.kind = "limit"
         /\ trades' = trades
         /\ portfolio_history' = portfolio_history)]_vars

\* the breaker tripped while Long with the stop-loss condition met
C4_Witness ==
  /\ response.kind = "limit"
  /\ ~config.is_active
  /\ trades # <<>>
  /\ trades[Len(trades)].trade_type = "buy"
  /\ RLe(PriceChange(lastEval.indicators.price, trades[Len(trades)].price),
         RNeg(config.stop_loss_percent))

\* C5: a trip leaves is_active false, and from a trip until is_active is set
\* back to true from outside the engine every engine invocation answers
\* "not active" without computing a decision and without adding a trade, a
\* portfolio snapshot or a log record.
C5_TripIsTerminal ==
  [][EngineStep =>
       /\ (response'.kind = "limit" => tripped' /\ ~config'.is_active)
       /\ tripped =>
            /\ ~config.is_active
            /\ config' = config
            /\ response'.kind = "inactive"
            /\ lastEval'.reached = "is_active"
            /\ trades' = trades
            /\ portfolio_history' = portfolio_history
            /\ logRecords' = logRecords]_vars

\* an invocation after a trip was turned away
C5_Witness == tripped /\ response.kind = "inactive" /\ evalCount >= 2

\* number of candles the latest invocation worked on
WindowLength == lastEval.windowLength

\* C11: a live evaluation whose candle window is shorter than the lookback of
\* an indicator the entry rule reads (fewer closes than long_ma_period, or
\* fewer than 26 closes for the slow EMA of the MACD) is a Hold, never a Buy.
C11_InsufficientHistoryHolds ==
  (/\ response.kind = "decision"
   /\ WindowLength < config.long_ma_period \/ WindowLength < 26)
    => response.action = "hold"

\* C12: an empty candle window is treated as insufficient history: the
\* invocation completes with a Hold decision, not with an error.
C12_EmptyCandlesHold ==
  lastEval.reached = "candles" =>
    response.kind = "decision" /\ response.action = "hold"

\* C13: every evaluation that reaches the decision logic returns a non-empty
\* reason with its action, for buy, sell and hold alike.
C13_ReasonAlwaysEmitted ==
  response.kind = "decision" => response.reason # ""

\* tradeAmount x (0.5 if volatility > 3 else 1) x (0.7 if sentiment < -0.5 else 1)
C14_Adjusted(tradeAmount, volatility, sentiment) ==
  RMul(RMul(tradeAmount, IF RGt(volatility, RInt(3)) THEN Rat(1, 2) ELSE RInt(1)),
       IF RLt(sentiment, Rat(-1, 2)) THEN Rat(7, 10) ELSE RInt(1))

\* C14: the adjusted trade amount is tradeAmount x (0.5 if volatility > 3 else
\* 1) x (0.7 if sentiment < -0.5 else 1), no discount exactly at 3 or at -0.5,
\* and a recorded Buy has total_value = adjusted amount and quantity =
\* adjusted amount / current close.
C14_RiskAdjustedSizing ==
  [][(EngineStep /\ lastEval'.reached = "decision") =>
       LET adjusted == C14_Adjusted(config.trade_amount,
                                    lastEval'.indicators.volatility,
                                    response'.indicators.sentiment)
       IN  /\ lastEval'.adjustedTradeAmount = adjusted
           /\ (response'.action = "buy" /\ trades' # trades) =>
                LET row == trades'[Len(trades')]
                IN  /\ trades' = Append(trades, row)
                    /\ row.trade_type = "buy"
                    /\ row.total_value = adjusted
                    /\ row.quantity = RDiv(adjusted, lastEval'.indicators.price)]_vars

\* a Buy recorded with sentiment exactly -0.5 and volatility above 3: only the
\* volatility discount applies
C14_Witness ==
  /\ response.kind = "decision"
  /\ response.action = "buy"
  /\ response.indicators.sentiment = Rat(-1, 2)
  /\ RGt(lastEval.indicators.volatility, RInt(3))
  /\ trades # <<>>
  /\ trades[Len(trades)].trade_type = "buy"
  /\ trades[Len(trades)].total_value = RInt(50)

\* the stop loss or the take profit fires for an invocation that read eval
C15_ProtectiveExit(eval, cfg) ==
  /\ eval.lastTrade # Null
  /\ eval.lastTrade.trade_type = "buy"
  /\ LET priceChange == PriceChange(eval.indicators.price, eval.lastTrade.price)
     IN  \/ RLe(priceChange, RNeg(cfg.stop_loss_percent))
         \/ RGe(priceChange, cfg.take_profit_percent)

\* C15: an evaluation with volatility >= 8 in which no protective exit fired is
\* a Hold with a reason naming the high volatility and records no trade,
\* whatever the regime, the position and the indicators are.
C15_SafetyGate ==
  [][(/\ EngineStep
      /\ lastEval'.reached = "decision"
      /\ RGe(lastEval'.indicators.volatility, RInt(8))
      /\ ~C15_ProtectiveExit(lastEval', config))
     => (/\ response'.action = "hold"
         /\ response'.reason = "High volatility detected"
         /\ \E k \in 1 .. Len(logRecords') : logRecords'[k].event_type = "volatility_hold"
         /\ trades' = trades
         /\ portfolio_history' = portfolio_history)]_vars

\* a Hold at volatility >= 8 while Long, where the strategy rules would have sold
C15_Witness ==
  /\ response.kind = "decision"
  /\ response.action = "hold"
  /\ RGe(lastEval.indicators.volatility, RInt(8))
  /\ WasLong
  /\ AdditionalExit(lastEval.indicators, TRUE,
                    RegimeSignal(lastEval.indicators, TRUE)).action = "sell"

\* C19: an engine invocation never sets is_active to true, and leaves it as it
\* is whenever |today's realized PnL| < max_daily_loss.
C19_IsActiveFrame ==
  [][EngineStep =>
       /\ (config'.is_active => config.is_active)
       /\ RLt(RAbs(C4_TodayRealizedPnl), config.max_daily_loss)
            => config'.is_active = config.is_active]_vars

\* a decision taken with the bot active and a non-zero PnL below the limit
C19_Witness ==
  /\ response.kind = "decision"
  /\ config.is_active
  /\ lastEval.todayPnL # RInt(0)

\* the bullish entry rule, on the indicators of the latest invocation
C20_BullishEntry ==
  LET ind == lastEval.indicators
  IN  /\ ind.regime = "bullish"
      /\ RGt(ind.adx, RInt(20))
      /\ RGt(ind.shortMA, ind.longMA)
      /\ RGt(ind.rsi, RInt(40)) /\ RLt(ind.rsi, RInt(70))
      /\ RGt(ind.macd, ind.signal)

\* the range entry rule, on the indicators of the latest invocation
C20_RangeEntry ==
  LET ind == lastEval.indicators
  IN  /\ ind.regime = "range"
      /\ RLt(ind.adx, RInt(20))
      /\ LeBBLower(ind.price, ind.bollingerBands)
      /\ RLt(ind.rsi, RInt(30))

\* C20: with the breaker not tripped, the position Flat and volatility < 8, the
\* action is Buy iff the bullish entry rule or the range entry rule holds, and
\* Hold otherwise.
C20_StrategyBuy ==
  (/\ response.kind = "decision"
   /\ ~WasLong
   /\ RLt(lastEval.indicators.volatility, RInt(8)))
    => response.action = IF C20_BullishEntry \/ C20_RangeEntry THEN "buy" ELSE "hold"

\* a Buy from Flat by the bullish rule
C20_Witness ==
  /\ response.kind = "decision"
  /\ ~WasLong
  /\ response.action = "buy"
  /\ C20_BullishEntry

\* the bearish exit rule, on the indicators of the latest invocation
C21_BearishExit ==
  LET ind == lastEval.indicators
  IN  /\ ind.regime = "bearish"
      /\ \/ RLt(ind.shortMA, ind.longMA)
         \/ RLt(ind.rsi, RInt(40))
         \/ RLt(ind.macd, ind.signal)

\* the range exit rule, on the indicators of the latest invocation
C21_RangeExit ==
  LET ind == lastEval.indicators
  IN  /\ ind.regime = "range"
      /\ RLt(ind.adx, RInt(20))
      /\ GeBBUpper(ind.price, ind.bollingerBands) \/ RGt(ind.rsi, RInt(70))

\* the fallback exit rule, on the indicators of the latest invocation
C21_WeakeningExit ==
  LET ind == lastEval.indicators
  IN  RLt(ind.shortMA, ind.longMA) /\ RLt(ind.rsi, RInt(45))

\* C21: with the breaker not tripped, the position Long, no protective exit
\* fired and volatility < 8, the action is Sell iff the bearish exit rule, the
\* range exit rule or the fallback "weakening momentum" rule holds, and Hold
\* otherwise.
C21_StrategySell ==
  (/\ response.kind = "decision"
   /\ WasLong
   /\ ~C15_ProtectiveExit(lastEval, config)
   /\ RLt(lastEval.indicators.volatility, RInt(8)))
    => response.action =
         IF C21_BearishExit \/ C21_RangeExit \/ C21_WeakeningExit THEN "sell" ELSE "hold"

\* a Sell by the fallback rule alone: Long in the range regime with a trend
C21_Witness ==
  /\ response.kind = "decision"
  /\ WasLong
  /\ ~C15_ProtectiveExit(lastEval, config)
  /\ RLt(lastEval.indicators.volatility, RInt(8))
  /\ response.action = "sell"
  /\ response.reason = "Protective exit: MA crossover down + weakening momentum"
  /\ ~C21_BearishExit /\ ~C21_RangeExit

\* C28: after every live evaluation the in_position flag of the most recent
\* portfolio snapshot equals whether the most recent recorded trade is a buy,
\* and the snapshot's total_pnl equals the sum of pnl over the recorded sells,
\* also when the trade insert or the portfolio insert failed.
C28_LedgerPortfolioAgreement ==
  portfolio_history # <<>> =>
    LET snapshot == portfolio_history[Len(portfolio_history)]
    IN  /\ snapshot.in_position
             = (trades # <<>> /\ trades[Len(trades)].trade_type = "buy")
        /\ snapshot.total_pnl
             = C4_SumPnl({k \in 1 .. Len(trades) : trades[k].trade_type = "sell"})

(***************************************************************************)
(* Properties of overlapping invocations (under SpecOverlap)               *)
(***************************************************************************)
\* C27: when two invocations for the same user overlap (each reads the most
\* recent trade before the other has inserted its trade), table trades still
\* never holds two consecutive buys or two consecutive sells.
C27_InterleavedAlternation ==
  \A k \in 1 .. Len(trades) - 1 : trades[k].trade_type # trades[k + 1].trade_type

(***************************************************************************)
(* Properties of the backtest loop (under SpecBT)                          *)
(***************************************************************************)
\* C2: the ledger of runMACrossoverBacktest alternates buy, sell, buy, ...
\* starting with a buy (inPosition holds exactly after a buy), so the pairing
\* of calculateBacktestMetrics completes every (odd, even) pair in order and
\* drops nothing but at most one trailing unmatched buy.
C2_BacktestAlternation ==
  /\ \A k \in 1 .. Len(btTrades) :
       btTrades[k].type = IF k % 2 = 1 THEN "buy" ELSE "sell"
  /\ btInPosition <=> (Len(btTrades) % 2 = 1)
  /\ (btPhase = "done" /\ metrics # Null) =>
       /\ metrics.totalTrades = Len(btTrades) \div 2
       /\ CompletedTrades(btTrades)
            = [k \in 1 .. (Len(btTrades) \div 2) |->
                 [entry |-> btTrades[2 * k - 1], exit |-> btTrades[2 * k],
                  pnl |-> PnlOr0(btTrades[2 * k])]]

\* a finished run whose ledger is buy, sell, buy: one round trip, one open buy
C2_Witness ==
  /\ btPhase = "done"
  /\ Len(btTrades) = 3
  /\ metrics # Null
  /\ metrics.totalTrades = 1

\* a step of the loop: bar btI is processed
BarStep == btPhase = "loop" /\ btI' = btI + 1

\* the entries the step appended to the ledger
Appended == SubSeq(btTrades', Len(btTrades) + 1, Len(btTrades'))

\* close of the bar being processed
BarClose == btCandles[btI + 1].close

\* mean of the `period` closes ending at 0-based bar `index`
MeanClose(index, period) ==
  RDiv(RSum([k \in 1 .. period |-> btCandles[index - period + k + 1].close]),
       RInt(period))

\* both moving averages and their prior-bar values exist at bar btI
BarDefined == btI >= Max(config.short_ma_period, config.long_ma_period)

BullishAtBar ==
  /\ RLe(MeanClose(btI - 1, config.short_ma_period),
         MeanClose(btI - 1, config.long_ma_period))
  /\ RGt(MeanClose(btI, config.short_ma_period),
         MeanClose(btI, config.long_ma_period))

BearishAtBar ==
  /\ RGe(MeanClose(btI - 1, config.short_ma_period),
         MeanClose(btI - 1, config.long_ma_period))
  /\ RLt(MeanClose(btI, config.short_ma_period),
         MeanClose(btI, config.long_ma_period))

\* Long at the start of the bar with the stop loss or the take profit breached
StopOrTargetAtBar ==
  /\ btInPosition
  /\ \/ RLe(PriceChange(BarClose, btEntryPrice), RNeg(config.stop_loss_percent))
     \/ RGe(PriceChange(BarClose, btEntryPrice), config.take_profit_percent)

\* C9: at bar i a Buy is appended iff both moving averages and their prior
\* values are defined (i >= max(shortPeriod, longPeriod)), the position is Flat
\* at the crossover check, and prevShort <= prevLong and short > long; the Buy
\* has price close[i] and quantity tradeAmount / close[i]; a bar where a moving
\* average or its prior value is undefined appends nothing.
C9_BacktestEntry ==
  [][BarStep =>
       LET buys == {k \in 1 .. Len(Appended) : Appended[k].type = "buy"}
       IN  /\ SubSeq(btTrades', 1, Len(btTrades)) = btTrades
           /\ (buys # {}) <=> (/\ BarDefined
                               /\ ~btInPosition \/ StopOrTargetAtBar
                               /\ BullishAtBar)
           /\ Cardinality(buys) <= 1
           /\ \A k \in buys :
                /\ Appended[k].price = BarClose
                /\ Appended[k].quantity = RDiv(config.trade_amount, BarClose)
                /\ Appended[k].timestamp = btCandles[btI + 1].timestamp
           /\ ~BarDefined => btTrades' = btTrades]_vars

\* a Buy at the first bar where all four averages exist
C9_Witness ==
  \E k \in 1 .. Len(btTrades) :
    /\ btTrades[k].type = "buy"
    /\ btTrades[k].timestamp = Max(config.short_ma_period, config.long_ma_period)
    /\ btTrades[k].quantity = RDiv(config.trade_amount, btTrades[k].price)

\* C10: at an evaluated bar entered Long, exactly one Sell is appended if the
\* stop loss or the take profit is breached or a bearish crossover occurs, and
\* none otherwise; the stop/target check comes first (its Sell is the first
\* entry of the bar, and a bullish crossover on the same bar then re-enters
\* after it); no Sell is appended at a bar entered Flat, so a position is never
\* exited on the bar it was entered.
C10_BacktestExit ==
  [][(BarStep /\ BarDefined) =>
       LET sells == {k \in 1 .. Len(Appended) : Appended[k].type = "sell"}
       IN  /\ btInPosition =>
                Cardinality(sells) = IF StopOrTargetAtBar \/ BearishAtBar THEN 1 ELSE 0
           /\ StopOrTargetAtBar =>
                /\ Appended[1].type = "sell"
                /\ Appended[1].price = BarClose
                /\ BullishAtBar => (Len(Appended) = 2 /\ Appended[2].type = "buy")
           /\ ~btInPosition => sells = {}
           /\ \A k \in 1 .. Len(Appended) :
                Appended[k].type = "buy" =>
                  /\ k = Len(Appended)
                  /\ btInPosition'
                  /\ btEntryIndex' = btI]_vars

\* a bar that took profit and re-entered: a Sell and a Buy with one timestamp
C10_Witness ==
  \E k \in 1 .. Len(btTrades) - 1 :
    /\ btTrades[k].type = "sell"
    /\ btTrades[k + 1].type = "buy"
    /\ btTrades[k].timestamp = btTrades[k + 1].timestamp

\* C30: the backtest appends at most one trade per bar: a bar on which a
\* stop-loss or take-profit Sell is appended never also receives a Buy, so no
\* two ledger entries share a candle timestamp.
C30_OneTradePerBar ==
  \A j \in 1 .. Len(btTrades), k \in 1 .. Len(btTrades) :
    j # k => btTrades[j].timestamp # btTrades[k].timestamp

\* what a live evaluation would compute from the tables: the most recent
\* trade, today's realized PnL, and the balance it starts from
C29_LiveReads(tradeRows, portfolioRows) ==
  [lastTrade |-> LatestBy(tradeRows, CreatedAt),
   todayPnL  |-> TodayPnL(tradeRows, today),
   balance   |-> {StartingBalance(lastPortfolio) :
                    lastPortfolio \in LatestBy(portfolioRows, RecordedAt)}]

\* C29: what a backtest run writes to the shared tables trades and
\* portfolio_history never changes what a later live evaluation computes as
\* its current position (the most recent trade), as today's realized PnL, or
\* as its running balance.
C29_BacktestLeavesLiveState ==
  [][btPhase = "loop" =>
       C29_LiveReads(trades', portfolio_history') = C29_LiveReads(trades, portfolio_history)]_vars

(***************************************************************************)
(* Properties of calculateBacktestMetrics (under SpecMetrics)              *)
(***************************************************************************)
\* the metric value 0 of the Sharpe ratio
SharpeZero == [value |-> RInt(0), overSqrt |-> RInt(1)]

\* C6: for a ledger with no completed round trip (empty, or a single unmatched
\* buy) every field of the metrics is 0.
C6_ZeroCompletedTrades ==
  (/\ btPhase = "done"
   /\ metrics # Null
   /\ btTrades = <<>> \/ (Len(btTrades) = 1 /\ btTrades[1].type = "buy")) =>
    /\ metrics.totalPnl = RInt(0)
    /\ metrics.winRate = RInt(0)
    /\ metrics.avgPnl = RInt(0)
    /\ metrics.maxDrawdown = RInt(0)
    /\ metrics.totalTrades = 0
    /\ metrics.winningTrades = 0
    /\ metrics.losingTrades = 0
    /\ metrics.sharpeRatio = SharpeZero
    /\ metrics.maxConsecutiveLosses = 0

\* pnl of the completed round trips of the ledger, in order
CompletedPnls ==
  LET pairs == [k \in 1 .. (Len(btTrades) \div 2) |->
                  [ok  |-> /\ btTrades[2 * k - 1].type = "buy"
                           /\ btTrades[2 * k].type = "sell",
                   pnl |-> btTrades[2 * k].pnl]]
      kept  == SelectSeq(pairs, LAMBDA e : e.ok)
  IN  [k \in 1 .. Len(kept) |-> kept[k].pnl]

\* balance after the first k completed trades
BalanceAfter(k) == RAdd(config.trade_amount, RSum(SubSeq(CompletedPnls, 1, k)))

\* the greatest element of a non-empty set of numbers
Greatest(S) == CHOOSE x \in S : \A y \in S : RGe(x, y)

\* running peak after the first k completed trades
PeakAfter(k) == Greatest({BalanceAfter(j) : j \in 0 .. k})

\* C8: maxDrawdown is >= 0 and equals the largest (running peak - running
\* balance) over the trade-by-trade walk seeded at initialBalance, and it is 0
\* when every completed trade has pnl >= 0.
C8_MaxDrawdown ==
  (btPhase = "done" /\ metrics # Null) =>
    /\ RGe(metrics.maxDrawdown, RInt(0))
    /\ metrics.maxDrawdown
         = Greatest({RSub(PeakAfter(k), BalanceAfter(k)) : k \in 0 .. Len(CompletedPnls)})
    /\ (\A k \in 1 .. Len(CompletedPnls) : RGe(CompletedPnls[k], RInt(0)))
         => metrics.maxDrawdown = RInt(0)

\* a walk that rises above initialBalance, falls back and ends on a new peak
C8_Witness ==
  /\ btPhase = "done"
  /\ CompletedPnls = <<RInt(5), RInt(-3), RInt(5)>>
  /\ metrics.maxDrawdown = RInt(3)

\* 1-based positions k of the ledger with k - 1 even, a buy at k and a sell at k + 1
C23_PairedAt ==
  {k \in 1 .. Len(btTrades) - 1 :
     /\ (k - 1) % 2 = 0
     /\ btTrades[k].type = "buy"
     /\ btTrades[k + 1].type = "sell"}

\* sum of the pnl of the sells that close the pairs starting in S
RECURSIVE C23_SumPnl(_)
C23_SumPnl(S) ==
  IF S = {} THEN RInt(0)
  ELSE LET k == CHOOSE x \in S : TRUE
       IN  RAdd(btTrades[k + 1].pnl, C23_SumPnl(S \ {k}))

\* C23: for an arbitrary trade list calculateBacktestMetrics completes, and
\* counts as completed exactly the pairs (trades[i], trades[i+1]) with i even,
\* trades[i] a buy and trades[i+1] a sell; every other entry (a pair at an odd
\* offset, a non-alternating pair, a trailing single trade) enters no metric.
C23_LossyPairing ==
  btPhase = "done" =>
    /\ metrics # Null
    /\ metrics.totalTrades = Cardinality(C23_PairedAt)
    /\ metrics.winningTrades + metrics.losingTrades = Cardinality(C23_PairedAt)
    /\ metrics.totalPnl = C23_SumPnl(C23_PairedAt)

\* buy, sell, sell, buy, sell: the buy and sell at positions 4 and 5 are at an
\* odd offset and are dropped with the stray sell; one round trip is counted
C23_Witness ==
  /\ btPhase = "done"
  /\ Len(btTrades) = 5
  /\ [k \in 1 .. 5 |-> btTrades[k].type] = <<"buy", "sell", "sell", "buy", "sell">>
  /\ metrics.totalTrades = 1
  /\ metrics.totalPnl = btTrades[2].pnl

\* lengths of the runs of consecutive completed trades with pnl <= 0
C24_LossRuns ==
  {b - a + 1 : a \in 1 .. Len(CompletedPnls), b \in 1 .. Len(CompletedPnls)}
  \cap {n \in 1 .. Len(CompletedPnls) :
          \E a \in 1 .. Len(CompletedPnls) - n + 1 :
            \A k \in a .. a + n - 1 : RLe(CompletedPnls[k], RInt(0))}

\* the greatest of a set of naturals, 0 for the empty set
C24_Longest(S) == IF S = {} THEN 0 ELSE CHOOSE n \in S : \A m \in S : m <= n

\* C24: for every ledger totalTrades is the number of completed round trips,
\* winningTrades counts those with pnl > 0 and losingTrades those with pnl <= 0,
\* the two add up to totalTrades, totalPnl is the sum of the completed pnl,
\* maxConsecutiveLosses is the length of the longest run of consecutive
\* completed trades with pnl <= 0 (so at most losingTrades), and when
\* totalTrades > 0, winRate = winningTrades / totalTrades and avgPnl = totalPnl
\* / totalTrades.
C24_MetricConsistency ==
  (btPhase = "done" /\ metrics # Null) =>
    LET n == Len(CompletedPnls)
    IN  /\ metrics.totalTrades = n
        /\ metrics.winningTrades
             = Cardinality({k \in 1 .. n : RGt(CompletedPnls[k], RInt(0))})
        /\ metrics.losingTrades
             = Cardinality({k \in 1 .. n : RLe(CompletedPnls[k], RInt(0))})
        /\ metrics.winningTrades + metrics.losingTrades = metrics.totalTrades
        /\ metrics.totalPnl = RSum(CompletedPnls)
        /\ metrics.maxConsecutiveLosses = C24_Longest(C24_LossRuns)
        /\ metrics.maxConsecutiveLosses <= metrics.losingTrades
        /\ n > 0 =>
             /\ metrics.winRate = Rat(metrics.winningTrades, n)
             /\ metrics.avgPnl = RDiv(metrics.totalPnl, RInt(n))

\* a loss, a win and a break-even trade: two losing trades, longest run one
C24_Witness ==
  /\ btPhase = "done"
  /\ CompletedPnls = <<RInt(-3), RInt(5), RInt(0)>>
  /\ metrics.losingTrades = 2
  /\ metrics.maxConsecutiveLosses = 1
  /\ metrics.winRate = Rat(1, 3)

\* C25: whenever there is at least one completed trade and all completed
\* trades have the same pnl (exactly one completed trade in particular), the
\* standard deviation of the returns is 0 and sharpeRatio is 0.
C25_SharpeSentinel ==
  (/\ btPhase = "done"
   /\ metrics # Null
   /\ Len(CompletedPnls) >= 1
   /\ \A k \in 1 .. Len(CompletedPnls) : CompletedPnls[k] = CompletedPnls[1])
    => metrics.sharpeRatio = SharpeZero

(***************************************************************************)
(* Properties of the indicator library (under SpecIndicators)              *)
(***************************************************************************)
\* the closes of the series handed to the indicators
IndicatorPrices == Closes(indCandles)

\* C16: on a series shorter than the period (the empty one included) every
\* indicator returns its sentinel: SMA and EMA 0, RSI 50, ATR 0, Bollinger
\* bands {0, 0, 0}, ADX 0, and movingAverage null.
C16_IndicatorSentinels ==
  (indResult # Null /\ Len(indCandles) < indPeriod) =>
    /\ indResult.sma = RInt(0)
    /\ indResult.ema = RInt(0)
    /\ indResult.rsi = RInt(50)
    /\ indResult.atr = RInt(0)
    /\ indResult.bollingerBands = [middle |-> RInt(0), variance |-> RInt(0)]
    /\ indResult.adx = RInt(0)
    /\ \A index \in DOMAIN indResult.movingAverage :
         indResult.movingAverage[index] = Null

\* the indicators ran on a non-empty series shorter than the period
C16_Witness ==
  /\ indResult # Null
  /\ Len(indCandles) = 2
  /\ indPeriod = 3

\* no price fell over the last `period` transitions of the series
C17_NoLoss ==
  \A k \in (Len(IndicatorPrices) - indPeriod + 1) .. Len(IndicatorPrices) :
    RGe(IndicatorPrices[k], IndicatorPrices[k - 1])

C22_Expected(trend) ==
  IF RGt(trend, RInt(60)) THEN "bullish"
  ELSE IF RLt(trend, RInt(40)) THEN "bearish"
  ELSE "range"

\* C22: determineRegime returns bullish iff trendStrength > 60, bearish iff
\* trendStrength < 40 and range otherwise, exactly 60 and exactly 40 included;
\* the result is that of the current trendStrength alone, whatever the
\* volatility argument is and whatever was returned for the bar before.
C22_RegimeClassification ==
  [][unit = "determineRegime" =>
       /\ regimeResult' = C22_Expected(regimeTrend')
       /\ regimeResult' \in {"bullish", "bearish", "range"}
       /\ (regimeTrend' \in {RInt(40), RInt(60)} => regimeResult' = "range")]_vars

\* exactly 60 classified as range, at high volatility
C22_Witness ==
  /\ regimeTrend = RInt(60)
  /\ regimeVolatility = RInt(9)
  /\ regimeResult = "range"

\* C26: the regime being derived from trendStrength = rsi, every Buy the
\* decision logic emits is decided in the bullish regime with 60 < rsi < 70;
\* the range mean-reversion Buy, which needs rsi < 30, never fires.
C26_BuyOnlyBullish ==
  (regimeDecision # Null /\ regimeDecision.decision.action = "buy") =>
    /\ regimeDecision.indicators.regime = "bullish"
    /\ RGt(regimeDecision.indicators.rsi, RInt(60))
    /\ RLt(regimeDecision.indicators.rsi, RInt(70))
    /\ regimeDecision.decision.reason = "Strong bullish signal"

\* a Buy decided at rsi 69
C26_Witness ==
  /\ regimeDecision # Null
  /\ regimeDecision.decision.action = "buy"
  /\ regimeDecision.indicators.rsi = RInt(69)
  /\ regimeTrend = RInt(69)

(***************************************************************************)
(* Properties of both ledgers (under SpecFunctions)                        *)
(***************************************************************************)
\* (sell close - entry price) x entry quantity
C18_Pnl(sellPrice, entryPrice, entryQuantity) ==
  RMul(RSub(sellPrice, entryPrice), entryQuantity)

\* the live ledger: table trades
C18_LiveSellPnl ==
  \A k \in 1 .. Len(trades) :
    IF trades[k].trade_type = "sell"
    THEN /\ k > 1
         /\ trades[k - 1].trade_type = "buy"
         /\ trades[k].pnl = C18_Pnl(trades[k].price, trades[k - 1].price,
                                    trades[k - 1].quantity)
    ELSE trades[k].pnl = RInt(0)

\* the backtest ledger: `trades` of runMACrossoverBacktest
C18_BacktestSellPnl ==
  \A k \in 1 .. Len(btTrades) :
    IF btTrades[k].type = "sell"
    THEN /\ k > 1
         /\ btTrades[k - 1].type = "buy"
         /\ btTrades[k].pnl = C18_Pnl(btTrades[k].price, btTrades[k - 1].price,
                                      btTrades[k - 1].quantity)
    ELSE btTrades[k].pnl = Null

\* C18: every Sell, in the live engine and in the backtest, carries pnl =
\* (sell close - entry price of the immediately preceding Buy) x (quantity of
\* that Buy); a Buy carries no realized pnl (0 in the live table, no pnl in the
\* backtest ledger).
C18_SellPnl == C18_LiveSellPnl /\ C18_BacktestSellPnl

\* a live Sell at a loss against a Buy of a reduced amount
C18_Witness ==
  \E k \in 2 .. Len(trades) :
    /\ trades[k].trade_type = "sell"
    /\ trades[k - 1].total_value # RInt(100)
    /\ RLt(trades[k].pnl, RInt(0))

====
